---- MODULE Spec2Model ----
(***************************************************************************)
(* Model of the schedule status / alert engine of the outage-schedule bot  *)
(* (src/worker.js): the schedule normaliser, the status evaluator, the     *)
(* local-time projection, the subscription records in the key-value store  *)
(* and the cron-driven notification dispatcher, together with the          *)
(* subscriber operations that create and delete subscription records.      *)
(*                                                                         *)
(* Times are real UTC milliseconds.  Every await of the dispatcher is a    *)
(* separate step, so that other requests and the clock interleave with it. *)
(***************************************************************************)
EXTENDS Integers, Sequences, FiniteSets, Bags, TLC

VARIABLES
    now,        \* the wall clock, UTC milliseconds (Date.now())
    kv,         \* STATE_KV restricted to the "sub:" keys: key -> record
    st,         \* per-chat user state (alerts flag, selected queue, saved list,
                \* admin mode)
    cap,        \* env.ALERT_MAX_PER_CRON of this deployment
    pc,         \* per cron invocation: where it is suspended
    ckeys,      \* per invocation: the listed keys not yet visited (head = current)
    cnow,       \* per invocation: the clock snapshot taken before the loop
    crec,       \* per invocation: the parsed record being processed
    cev,        \* per invocation: eventUtcMs computed for the current record
    processed,  \* per invocation: the loop's `processed` counter
    sent,       \* per invocation: the loop's `sent` counter
    why,        \* per invocation: which return of processOneSubscription was taken last
    cres,       \* per invocation: ok of the sendMessage result (not read by the code)
    outcome,    \* per invocation: how the last run of scheduled() ended
    alerts,     \* history: bag of the alert messages Telegram accepted
    call,       \* the function or request entered last, with its arguments; for
                \* webhook requests in progress at once: per request, its update
                \* and the user state it loaded
    ret,        \* what that call returned
    cfg,        \* the global bot config in KV: ads settings, ad items and
                \* whitelist (or what the key holds when that is no config)
    ad,         \* per chat: st.ad of the user state (counter, nextAtMs)
    adlog       \* history per chat: maybeShowAd calls, ads sent, the last ad's time
                \* and cooldown, calls the timer blocked since it and before it

vars == << now, kv, st, cap, pc, ckeys, cnow, crec, cev, processed, sent, why,
           cres, outcome, alerts, call, ret, cfg, ad, adlog >>

avars == << cfg, ad, adlog >>

(* No call entered yet; the dispatcher and subscriber steps leave it so.   *)
NoCall == [fn |-> "none"]

-----------------------------------------------------------------------------
(* Program constants *)

MsPerMin == 60000
DayMs == 86400000
MinPerDay == 1440
UaOffsetMin == 120
AlertMinBefore == 20
AlertWindowMin == 6

(* Bounds of the model *)

Day0 == 10          \* the clock starts on this day after the epoch
StepMin == 6        \* spacing of the sampled clock instants, minutes
MaxTicks == 4       \* number of clock advances
MaxCap == 2         \* largest ALERT_MAX_PER_CRON tried

Chats == {"c1"}
Urls == {"u1", "u2"}
Keys == Chats \X Urls
Inv == {1, 2}

\* the order in which STATE_KV.list returns the keys (lexicographic on the key text)
KeyOrder == << <<"c1", "u1">>, <<"c1", "u2">> >>

-----------------------------------------------------------------------------
(* Ads: the global config and the per-user pacing *)

AdminId == "adm"
AdChats == {"c1", AdminId}

\* defaultGlobalConfig, and st.ad of defaultUserState
defaultGlobalConfig ==
    [enabled |-> TRUE, frequency |-> 3, cooldownSec |-> 0, whitelist |-> {},
     items |-> << "default" >>]
defaultAd == [counter |-> 0, nextAtMs |-> 0]

InitAds ==
    /\ cfg = defaultGlobalConfig
    /\ ad = [c \in AdChats |-> defaultAd]
    /\ adlog = [c \in AdChats |-> [calls |-> 0, n |-> 0, lastMs |-> 0, lastCd |-> 0,
                                  blocked |-> 0, lastBlocked |-> 0]]

-----------------------------------------------------------------------------
(* Time *)

NullMin == -1    \* nextChangeMin = null

uaLocalNow(t) ==
    LET localMs == t + UaOffsetMin * MsPerMin
    IN  [nowUtcMs |-> t, localMs |-> localMs, offMin |-> UaOffsetMin,
         minutes |-> (localMs \div MsPerMin) % MinPerDay]

\* mutant: the day of the UTC instant instead of the local day
localDayStartMs_UtcDay(localMs) ==
    ((localMs - UaOffsetMin * MsPerMin) \div DayMs) * DayMs

localDayStartMs(localMs) == (localMs \div DayMs) * DayMs

-----------------------------------------------------------------------------
(* Schedule blocks: a time text "HH:MM" is the pair <<HH, MM>>; `on` is     *)
(* "true", "false" or "null".                                              *)

toMin(t) == t[1] * 60 + t[2]

\* mutant: an end equal to the start is rolled over midnight as well
normalizeBlock_RollsEqual(b) ==
    LET startMin == toMin(b.start)
        endMin0 == toMin(b.end)
        endMin == IF endMin0 <= startMin THEN endMin0 + 24 * 60 ELSE endMin0
    IN  [start |-> b.start, end |-> b.end, on |-> b.on,
         startMin |-> startMin, endMin |-> endMin]

normalizeBlock(b) ==
    LET startMin == toMin(b.start)
        endMin0 == toMin(b.end)
        endMin == IF endMin0 < startMin THEN endMin0 + 24 * 60 ELSE endMin0
    IN  [start |-> b.start, end |-> b.end, on |-> b.on,
         startMin |-> startMin, endMin |-> endMin]

\* mutant: the end minute of a block still belongs to it
RECURSIVE findCurrentFrom_ClosedEnd(_, _, _)
findCurrentFrom_ClosedEnd(blocks, nowMin, i) ==
    IF i > Len(blocks) THEN 0
    ELSE IF nowMin >= blocks[i].startMin /\ nowMin <= blocks[i].endMin THEN i
    ELSE findCurrentFrom_ClosedEnd(blocks, nowMin, i + 1)

RECURSIVE findCurrentFrom(_, _, _)
findCurrentFrom(blocks, nowMin, i) ==
    IF i > Len(blocks) THEN 0
    ELSE IF nowMin >= blocks[i].startMin /\ nowMin < blocks[i].endMin THEN i
    ELSE findCurrentFrom(blocks, nowMin, i + 1)

\* index of the current block, 0 for null
findCurrentBlock(blocks, nowMin) == findCurrentFrom(blocks, nowMin, 1)

\* mutant: a block starting at nowMin counts as the next one
RECURSIVE findNextFrom_Inclusive(_, _, _)
findNextFrom_Inclusive(blocks, nowMin, i) ==
    IF i > Len(blocks) THEN 0
    ELSE IF blocks[i].startMin >= nowMin THEN i
    ELSE findNextFrom_Inclusive(blocks, nowMin, i + 1)

RECURSIVE findNextFrom(_, _, _)
findNextFrom(blocks, nowMin, i) ==
    IF i > Len(blocks) THEN 0
    ELSE IF blocks[i].startMin > nowMin THEN i
    ELSE findNextFrom(blocks, nowMin, i + 1)

\* mutant: the last block in source order that starts after nowMin
findNextBlock_Last(blocks, nowMin) ==
    LET later == {j \in 1..Len(blocks) : blocks[j].startMin > nowMin}
    IN  IF later = {} THEN 0 ELSE CHOOSE j \in later : \A k \in later : k <= j

\* index of the next block, 0 for null
findNextBlock(blocks, nowMin) == findNextFrom(blocks, nowMin, 1)

computeStatus(blocks, nowMin) ==
    LET c == findCurrentBlock(blocks, nowMin)
        n == findNextBlock(blocks, nowMin)
    IN  IF c # 0 THEN
            [status |-> IF blocks[c].on = "true" THEN "on"
                        ELSE IF blocks[c].on = "false" THEN "off" ELSE "unknown",
             nextChangeMin |-> blocks[c].endMin,
             nextChangeType |-> IF blocks[c].on = "true" THEN "off"
                                ELSE IF blocks[c].on = "false" THEN "on" ELSE "unknown",
             nextChangeAtText |-> blocks[c].end,
             delta |-> blocks[c].endMin - nowMin]
        ELSE IF n # 0 THEN
            [status |-> "off",
             nextChangeMin |-> blocks[n].startMin,
             nextChangeType |-> IF blocks[n].on = "true" THEN "on"
                                ELSE IF blocks[n].on = "false" THEN "off" ELSE "unknown",
             nextChangeAtText |-> blocks[n].start,
             delta |-> blocks[n].startMin - nowMin]
        ELSE
            [status |-> "nodata", nextChangeMin |-> NullMin, nextChangeType |-> "null",
             nextChangeAtText |-> << >>, delta |-> 0]

\* the items the extractors return for the pages the upstream site may serve
SchedA == << [start |-> <<8, 0>>, end |-> <<10, 0>>, on |-> "false"],
             [start |-> <<10, 0>>, end |-> <<18, 0>>, on |-> "true"] >>
SchedB == << [start |-> <<8, 0>>, end |-> <<10, 6>>, on |-> "false"],
             [start |-> <<10, 6>>, end |-> <<18, 0>>, on |-> "true"] >>
Pages == {SchedA, SchedB, << >>}

\* outcomes of fetchWithRetry on the schedule page
FetchOutcomes ==
    {[kind |-> "throw", items |-> << >>], [kind |-> "notok", items |-> << >>]}
    \cup {[kind |-> "ok", items |-> p] : p \in Pages}

fetchScheduleBlocks(res) ==
    IF res.kind # "ok" THEN [ok |-> FALSE, blocks |-> << >>]
    ELSE [ok |-> TRUE,
          blocks |-> [i \in 1..Len(res.items) |-> normalizeBlock(res.items[i])]]

-----------------------------------------------------------------------------
(* Subscription records in the store *)

NoRec == [chatId |-> "", url |-> "", minutesBefore |-> 0, enabled |-> FALSE,
          lastNotifiedEventUtcMs |-> 0]

\* key of a record: sub:<token>:<chatId>:<sha1(url)>
subKey(chatId, url) == <<chatId, url>>

KvPut(store, k, rec) ==
    [x \in (DOMAIN store) \cup {k} |-> IF x = k THEN rec ELSE store[x]]

KvDelete(store, ks) == [x \in (DOMAIN store) \ ks |-> store[x]]

\* mutant: a chat has one subscription, replaced by the new one
upsertSubscription_Replaces(store, chatId, url, enabled) ==
    IF ~enabled THEN KvDelete(store, {subKey(chatId, url)})
    ELSE KvPut(KvDelete(store, {k \in DOMAIN store : k[1] = chatId}),
               subKey(chatId, url),
               [chatId |-> chatId, url |-> url, minutesBefore |-> AlertMinBefore,
                enabled |-> TRUE, lastNotifiedEventUtcMs |-> 0])

\* the store after upsertSubscription(env, token, chatId, sel, enabled)
upsertSubscription(store, chatId, url, enabled) ==
    IF ~enabled THEN KvDelete(store, {subKey(chatId, url)})
    ELSE KvPut(store, subKey(chatId, url),
               [chatId |-> chatId, url |-> url, minutesBefore |-> AlertMinBefore,
                enabled |-> TRUE, lastNotifiedEventUtcMs |-> 0])

\* listSubscriptions: the keys present, in listing order
listSubscriptions(store) == SelectSeq(KeyOrder, LAMBDA k : k \in DOMAIN store)

-----------------------------------------------------------------------------
(* Subscriber operations (handleCallback).  putOk: whether the store put    *)
(* inside upsertSubscription succeeds; its exception is swallowed.         *)

defaultUserState ==
    [alerts |-> TRUE, selected |-> "none", saved |-> << >>, mode |-> "none"]

\* mutant of the test of the save: never found
InSaved_Never(c, u) == FALSE

InSaved(c, u) == \E j \in 1..Len(st[c].saved) : st[c].saved[j] = u

\* callback "queue|idx": the chat picks queue u of the listed queues
SelectQueue(c, u, putOk) ==
    /\ st' = [st EXCEPT ![c].selected = u]
    /\ kv' = IF st[c].alerts /\ putOk THEN upsertSubscription(kv, c, u, TRUE) ELSE kv
    /\ UNCHANGED << now, cap, pc, ckeys, cnow, crec, cev, processed, sent, why,
                    cres, outcome, alerts, call, ret, avars >>

\* callback "save"
SaveQueue(c) ==
    /\ st[c].selected # "none"
    /\ ~InSaved(c, st[c].selected)
    /\ st' = [st EXCEPT ![c].saved = Append(@, st[c].selected)]
    /\ UNCHANGED << now, kv, cap, pc, ckeys, cnow, crec, cev, processed, sent, why,
                    cres, outcome, alerts, call, ret, avars >>

\* callback "show|idx"
ShowSaved(c, idx, putOk) ==
    /\ idx \in 1..Len(st[c].saved)
    /\ st' = [st EXCEPT ![c].selected = st[c].saved[idx]]
    /\ kv' = IF st[c].alerts /\ putOk
             THEN upsertSubscription(kv, c, st[c].saved[idx], TRUE) ELSE kv
    /\ UNCHANGED << now, cap, pc, ckeys, cnow, crec, cev, processed, sent, why,
                    cres, outcome, alerts, call, ret, avars >>

\* callback "del|idx"
DelSaved(c, idx) ==
    /\ idx \in 1..Len(st[c].saved)
    /\ st' = [st EXCEPT ![c].saved =
                 [j \in 1..(Len(@) - 1) |-> IF j < idx THEN @[j] ELSE @[j + 1]]]
    /\ UNCHANGED << now, kv, cap, pc, ckeys, cnow, crec, cev, processed, sent, why,
                    cres, outcome, alerts, call, ret, avars >>

\* callback "alerts_toggle"
ToggleAlerts(c, putOk) ==
    /\ st' = [st EXCEPT ![c].alerts = ~@]
    /\ kv' = IF st[c].alerts
             THEN KvDelete(kv, {k \in DOMAIN kv : k[1] = c})
             ELSE IF st[c].selected # "none" /\ putOk
                  THEN upsertSubscription(kv, c, st[c].selected, TRUE)
                  ELSE kv
    /\ UNCHANGED << now, cap, pc, ckeys, cnow, crec, cev, processed, sent, why,
                    cres, outcome, alerts, call, ret, avars >>

-----------------------------------------------------------------------------
(* The clock: sampled at multiples of StepMin minutes and one millisecond   *)
(* before each of them.                                                    *)

StepMs == StepMin * MsPerMin
StartMinUtc == 460      \* 07:40 UTC = 09:40 local
StartMs == Day0 * DayMs + StartMinUtc * MsPerMin - 1
EndMs == StartMs + ((MaxTicks + 1) \div 2) * StepMs

Tick ==
    /\ now < EndMs
    /\ now' = IF (now + 1) % MsPerMin = 0 THEN now + 1 ELSE now + StepMs - 1
    /\ UNCHANGED << kv, st, cap, pc, ckeys, cnow, crec, cev, processed, sent, why,
                    cres, outcome, alerts, call, ret, avars >>

-----------------------------------------------------------------------------
(* The dispatcher: scheduled() -> runCronAlerts -> processOneSubscription   *)

NoNow == [nowUtcMs |-> 0, localMs |-> 0, offMin |-> 0, minutes |-> 0]

\* mutant of the projection: the offset is not taken off again
eventUtcMs_NoOffset(n, nextChangeMin) ==
    localDayStartMs(n.localMs) + nextChangeMin * MsPerMin

\* eventUtcMs of processOneSubscription for the clock snapshot n
eventUtcMs(n, nextChangeMin) ==
    (localDayStartMs(n.localMs) + nextChangeMin * MsPerMin) - n.offMin * MsPerMin

minsBefore(rec) ==
    IF rec.minutesBefore # 0 THEN rec.minutesBefore ELSE AlertMinBefore

alertUtcMs(rec, ev) == ev - minsBefore(rec) * MsPerMin

windowMs == AlertWindowMin * MsPerMin

\* mutants of the guard: no guard at all; a guard that lets the equal event through
alreadyNotified_NoGuard(rec, ev) == FALSE

alreadyNotified_Strict(rec, ev) ==
    rec.lastNotifiedEventUtcMs # 0 /\ rec.lastNotifiedEventUtcMs > ev

\* the idempotence guard: if (last && last >= eventUtcMs) return { sent: false }
alreadyNotified(rec, ev) ==
    rec.lastNotifiedEventUtcMs # 0 /\ rec.lastNotifiedEventUtcMs >= ev

\* mutant of the window: the end of the window included
within_ClosedEnd(n, rec, ev) ==
    n.nowUtcMs >= alertUtcMs(rec, ev) /\ n.nowUtcMs <= alertUtcMs(rec, ev) + windowMs

\* the firing window
within(n, rec, ev) ==
    n.nowUtcMs >= alertUtcMs(rec, ev) /\ n.nowUtcMs < alertUtcMs(rec, ev) + windowMs

\* the return taken by processOneSubscription before the send, "send" if none
decide(rec, n, res) ==
    LET fb == fetchScheduleBlocks(res)
        meta == computeStatus(fb.blocks, n.minutes)
        ev == eventUtcMs(n, meta.nextChangeMin)
    IN  IF rec.enabled # TRUE THEN "disabled"
        ELSE IF res.kind = "throw" THEN "error"
        ELSE IF ~fb.ok \/ Len(fb.blocks) = 0 THEN "nodata"
        ELSE IF meta.nextChangeMin = NullMin THEN "nonext"
        ELSE IF alreadyNotified(rec, ev) THEN "guard"
        ELSE IF ~within(n, rec, ev) THEN "window"
        ELSE "send"

\* the end of one loop iteration: on to the next key
NextKey(i) ==
    /\ ckeys' = [ckeys EXCEPT ![i] = Tail(@)]
    /\ pc' = [pc EXCEPT ![i] = "loop"]

\* the end of runCronAlerts: its locals are gone; the listing position and
\* the counters stay visible as its result
Return(i, how) ==
    /\ pc' = [pc EXCEPT ![i] = "idle"]
    /\ outcome' = [outcome EXCEPT ![i] = how]
    /\ crec' = [crec EXCEPT ![i] = NoRec]
    /\ cev' = [cev EXCEPT ![i] = 0]
    /\ why' = [why EXCEPT ![i] = "none"]
    /\ cres' = [cres EXCEPT ![i] = FALSE]

\* mutant of the cap check: one record too many
capReached_OffByOne(n, max) == n > max

\* if (processed >= max) break
capReached(n, max) == n >= max

\* the cron trigger fires at most once per clock instant
CronDue == \A j \in Inv : now > cnow[j].nowUtcMs

\* runCronAlerts up to the loop: list the keys, then take the clock snapshot
CronList(i, ok) ==
    /\ pc[i] = "idle"
    /\ CronDue
    /\ IF ~ok
       THEN /\ outcome' = [outcome EXCEPT ![i] = "fatal"]
            /\ ckeys' = [ckeys EXCEPT ![i] = << >>]
            /\ UNCHANGED << pc, cnow >>
       ELSE IF listSubscriptions(kv) = << >>
       THEN /\ outcome' = [outcome EXCEPT ![i] = "done"]
            /\ ckeys' = [ckeys EXCEPT ![i] = << >>]
            /\ UNCHANGED << pc, cnow >>
       ELSE /\ outcome' = [outcome EXCEPT ![i] = "none"]
            /\ ckeys' = [ckeys EXCEPT ![i] = listSubscriptions(kv)]
            /\ cnow' = [cnow EXCEPT ![i] = uaLocalNow(now)]
            /\ pc' = [pc EXCEPT ![i] = "loop"]
    /\ processed' = [processed EXCEPT ![i] = 0]
    /\ sent' = [sent EXCEPT ![i] = 0]
    /\ UNCHANGED << now, kv, st, cap, crec, cev, why, cres, alerts, call, ret, avars >>

\* mutant of the loop head: the clock is read again for every key
CronGet_NewSnapshot(i, ok) ==
    /\ pc[i] = "loop"
    /\ cnow' = [cnow EXCEPT ![i] = uaLocalNow(now)]
    /\ IF ckeys[i] = << >> \/ capReached(processed[i], cap)
       THEN /\ Return(i, "done")
            /\ UNCHANGED << ckeys, processed >>
       ELSE IF ~ok
       THEN /\ Return(i, "fatal")
            /\ UNCHANGED << ckeys, processed >>
       ELSE IF Head(ckeys[i]) \notin DOMAIN kv
       THEN /\ ckeys' = [ckeys EXCEPT ![i] = Tail(@)]
            /\ crec' = [crec EXCEPT ![i] = NoRec]
            /\ cev' = [cev EXCEPT ![i] = 0]
            /\ why' = [why EXCEPT ![i] = "none"]
            /\ cres' = [cres EXCEPT ![i] = FALSE]
            /\ UNCHANGED << pc, outcome, processed >>
       ELSE /\ crec' = [crec EXCEPT ![i] = kv[Head(ckeys[i])]]
            /\ processed' = [processed EXCEPT ![i] = @ + 1]
            /\ pc' = [pc EXCEPT ![i] = "process"]
            /\ cev' = [cev EXCEPT ![i] = 0]
            /\ why' = [why EXCEPT ![i] = "none"]
            /\ cres' = [cres EXCEPT ![i] = FALSE]
            /\ UNCHANGED << ckeys, outcome >>
    /\ UNCHANGED << now, kv, st, cap, sent, alerts, call, ret, avars >>

\* the loop head: the cap, then STATE_KV.get(k), which is outside the try
CronGet(i, ok) ==
    /\ pc[i] = "loop"
    /\ IF ckeys[i] = << >> \/ capReached(processed[i], cap)
       THEN /\ Return(i, "done")
            /\ UNCHANGED << ckeys, processed >>
       ELSE IF ~ok
       THEN /\ Return(i, "fatal")
            /\ UNCHANGED << ckeys, processed >>
       ELSE IF Head(ckeys[i]) \notin DOMAIN kv
       THEN /\ ckeys' = [ckeys EXCEPT ![i] = Tail(@)]
            /\ crec' = [crec EXCEPT ![i] = NoRec]
            /\ cev' = [cev EXCEPT ![i] = 0]
            /\ why' = [why EXCEPT ![i] = "none"]
            /\ cres' = [cres EXCEPT ![i] = FALSE]
            /\ UNCHANGED << pc, outcome, processed >>
       ELSE /\ crec' = [crec EXCEPT ![i] = kv[Head(ckeys[i])]]
            /\ processed' = [processed EXCEPT ![i] = @ + 1]
            /\ pc' = [pc EXCEPT ![i] = "process"]
            /\ cev' = [cev EXCEPT ![i] = 0]
            /\ why' = [why EXCEPT ![i] = "none"]
            /\ cres' = [cres EXCEPT ![i] = FALSE]
            /\ UNCHANGED << ckeys, outcome >>
    /\ UNCHANGED << now, kv, st, cap, cnow, sent, alerts, call, ret, avars >>

\* processOneSubscription from its start to the send: res is the outcome of
\* mutant of the schedule fetch step: a skipped record is written back
CronProcess_WritesBack(i, res) ==
    /\ pc[i] = "process"
    /\ LET d == decide(crec[i], cnow[i], res)
           meta == computeStatus(fetchScheduleBlocks(res).blocks, cnow[i].minutes)
       IN  /\ why' = [why EXCEPT ![i] = d]
           /\ cev' = [cev EXCEPT ![i] =
                         IF d \in {"guard", "window", "send"}
                         THEN eventUtcMs(cnow[i], meta.nextChangeMin) ELSE 0]
           /\ IF d = "send"
              THEN /\ pc' = [pc EXCEPT ![i] = "send"]
                   /\ UNCHANGED << ckeys, kv >>
              ELSE /\ NextKey(i)
                   /\ kv' = KvPut(kv, Head(ckeys[i]), crec[i])
    /\ UNCHANGED << now, st, cap, cnow, crec, processed, sent, cres, outcome,
                    alerts, call, ret, avars >>

\* the schedule fetch
CronProcess(i, res) ==
    /\ pc[i] = "process"
    /\ LET d == decide(crec[i], cnow[i], res)
           meta == computeStatus(fetchScheduleBlocks(res).blocks, cnow[i].minutes)
       IN  /\ why' = [why EXCEPT ![i] = d]
           /\ cev' = [cev EXCEPT ![i] =
                         IF d \in {"guard", "window", "send"}
                         THEN eventUtcMs(cnow[i], meta.nextChangeMin) ELSE 0]
           /\ IF d = "send"
              THEN /\ pc' = [pc EXCEPT ![i] = "send"]
                   /\ UNCHANGED ckeys
              ELSE NextKey(i)
    /\ UNCHANGED << now, kv, st, cap, cnow, crec, processed, sent, cres, outcome,
                    alerts, call, ret, avars >>

\* mutant of the send: the watermark is stored in the same step as the send
SendAlert_Persists(i, ok) ==
    /\ pc[i] = "send"
    /\ cres' = [cres EXCEPT ![i] = ok]
    /\ alerts' = IF ok
                 THEN alerts (+) SetToBag({[chatId |-> crec[i].chatId,
                                            url |-> crec[i].url, ev |-> cev[i]]})
                 ELSE alerts
    /\ crec' = [crec EXCEPT ![i].lastNotifiedEventUtcMs = cev[i]]
    /\ kv' = LET k == subKey(crec[i].chatId, crec[i].url)
             IN  [x \in DOMAIN kv \cup {k} |->
                    IF x = k THEN [crec[i] EXCEPT !.lastNotifiedEventUtcMs = cev[i]]
                    ELSE kv[x]]
    /\ pc' = [pc EXCEPT ![i] = "put"]
    /\ UNCHANGED << now, st, cap, ckeys, cnow, cev, processed, sent, why, outcome, call, ret, avars >>

\* await sendMessage(...): ok is whether Telegram accepted the message; the
\* result is not looked at.  Then rec.lastNotifiedEventUtcMs = eventUtcMs.
SendAlert(i, ok) ==
    /\ pc[i] = "send"
    /\ cres' = [cres EXCEPT ![i] = ok]
    /\ alerts' = IF ok
                 THEN alerts (+) SetToBag({[chatId |-> crec[i].chatId,
                                            url |-> crec[i].url, ev |-> cev[i]]})
                 ELSE alerts
    /\ crec' = [crec EXCEPT ![i].lastNotifiedEventUtcMs = cev[i]]
    /\ pc' = [pc EXCEPT ![i] = "put"]
    /\ UNCHANGED << now, kv, st, cap, ckeys, cnow, cev, processed, sent, why, outcome, call, ret, avars >>

\* mutant of the send: the stored watermark is read again before the send
CronSend_Recheck(i, ok) ==
    /\ LET k == subKey(crec[i].chatId, crec[i].url)
       IN  k \in DOMAIN kv => ~alreadyNotified(kv[k], cev[i])
    /\ SendAlert(i, ok)

\* lines 1430-1431 of processOneSubscription: no condition but the await
CronSend(i, ok) == SendAlert(i, ok)

\* await STATE_KV.put(key, rec): an exception is caught by the loop
CronPut(i, ok) ==
    /\ pc[i] = "put"
    /\ IF ok
       THEN /\ kv' = KvPut(kv, subKey(crec[i].chatId, crec[i].url), crec[i])
            /\ sent' = [sent EXCEPT ![i] = @ + 1]
            /\ why' = [why EXCEPT ![i] = "sent"]
       ELSE /\ why' = [why EXCEPT ![i] = "error"]
            /\ UNCHANGED << kv, sent >>
    /\ NextKey(i)
    /\ UNCHANGED << now, st, cap, cnow, crec, cev, processed, cres, outcome, alerts, call, ret, avars >>

\* the runtime ends the invocation at an await (time limit, eviction)
CronKill(i) ==
    /\ pc[i] # "idle"
    /\ Return(i, "killed")
    /\ UNCHANGED << now, kv, st, cap, ckeys, cnow, processed, sent, alerts, call, ret, avars >>

Cron(i) ==
    \/ \E ok \in BOOLEAN : CronList(i, ok)
    \/ \E ok \in BOOLEAN : CronGet(i, ok)
    \/ \E res \in FetchOutcomes : CronProcess(i, res)
    \/ \E ok \in BOOLEAN : CronSend(i, ok)
    \/ \E ok \in BOOLEAN : CronPut(i, ok)
    \/ CronKill(i)

Subscriber ==
    \E c \in Chats :
        \/ \E u \in Urls, ok \in BOOLEAN : SelectQueue(c, u, ok)
        \/ \E ok \in BOOLEAN : ToggleAlerts(c, ok)

-----------------------------------------------------------------------------
(* Cron invocations run one after another (one invocation at a time),       *)
(* interleaved with the subscriber's requests and the clock.               *)

Init ==
    /\ now = StartMs
    /\ kv = << >>
    /\ st = [c \in Chats |-> defaultUserState]
    /\ cap \in 1..MaxCap
    /\ pc = [i \in Inv |-> "idle"]
    /\ ckeys = [i \in Inv |-> << >>]
    /\ cnow = [i \in Inv |-> NoNow]
    /\ crec = [i \in Inv |-> NoRec]
    /\ cev = [i \in Inv |-> 0]
    /\ processed = [i \in Inv |-> 0]
    /\ sent = [i \in Inv |-> 0]
    /\ why = [i \in Inv |-> "none"]
    /\ cres = [i \in Inv |-> FALSE]
    /\ outcome = [i \in Inv |-> "none"]
    /\ alerts = EmptyBag
    /\ call = NoCall
    /\ ret = NoCall
    /\ InitAds

Next == Tick \/ Subscriber \/ Cron(1)

Spec == Init /\ [][Next]_vars

-----------------------------------------------------------------------------
(* The same, with a store and a notify sink that never fail and a runtime   *)
(* that never ends an invocation early.                                    *)

CronReliable(i) ==
    \/ CronList(i, TRUE)
    \/ CronGet(i, TRUE)
    \/ \E res \in FetchOutcomes : CronProcess(i, res)
    \/ CronSend(i, TRUE)
    \/ CronPut(i, TRUE)

NextReliable == Tick \/ Subscriber \/ CronReliable(1)

SpecReliable == Init /\ [][NextReliable]_vars

-----------------------------------------------------------------------------
(* Overlapping cron invocations: the chat has selected queue u1 with alerts *)
(* enabled, and two invocations of scheduled() may be in progress at once. *)

InitSubscribed ==
    /\ now = StartMs
    /\ kv = upsertSubscription(<< >>, "c1", "u1", TRUE)
    /\ st = [c \in Chats |-> [defaultUserState EXCEPT !.selected = "u1"]]
    /\ cap \in 1..MaxCap
    /\ pc = [i \in Inv |-> "idle"]
    /\ ckeys = [i \in Inv |-> << >>]
    /\ cnow = [i \in Inv |-> NoNow]
    /\ crec = [i \in Inv |-> NoRec]
    /\ cev = [i \in Inv |-> 0]
    /\ processed = [i \in Inv |-> 0]
    /\ sent = [i \in Inv |-> 0]
    /\ why = [i \in Inv |-> "none"]
    /\ cres = [i \in Inv |-> FALSE]
    /\ outcome = [i \in Inv |-> "none"]
    /\ alerts = EmptyBag
    /\ call = NoCall
    /\ ret = NoCall
    /\ InitAds

NextOverlap == Tick \/ \E i \in Inv : Cron(i)

SpecOverlap == InitSubscribed /\ [][NextOverlap]_vars

-----------------------------------------------------------------------------
(* The cron schedule: scheduled() runs every CronPeriodMin minutes, the     *)
(* upstream page does not change, the store and the notify sink do not     *)
(* fail, and the chat stays subscribed to queue u1.  The first run falls   *)
(* in the period that ends at 09:40 local.                                 *)

CronPeriodMin == 5
PeriodicTicks == 5

SchedShort == << [start |-> <<10, 0>>, end |-> <<10, 10>>, on |-> "false"],
                 [start |-> <<10, 10>>, end |-> <<18, 0>>, on |-> "true"] >>

PeriodMs == CronPeriodMin * MsPerMin
PeriodicEndMs == StartMs + 1 + PeriodicTicks * PeriodMs

InitPeriodic ==
    /\ now \in {(StartMs + 1) - PeriodMs + p * MsPerMin : p \in 1..CronPeriodMin}
    /\ kv = upsertSubscription(<< >>, "c1", "u1", TRUE)
    /\ st = [c \in Chats |-> [defaultUserState EXCEPT !.selected = "u1"]]
    /\ cap = MaxCap
    /\ pc = [i \in Inv |-> "idle"]
    /\ ckeys = [i \in Inv |-> << >>]
    /\ cnow = [i \in Inv |-> NoNow]
    /\ crec = [i \in Inv |-> NoRec]
    /\ cev = [i \in Inv |-> 0]
    /\ processed = [i \in Inv |-> 0]
    /\ sent = [i \in Inv |-> 0]
    /\ why = [i \in Inv |-> "none"]
    /\ cres = [i \in Inv |-> FALSE]
    /\ outcome = [i \in Inv |-> "none"]
    /\ alerts = EmptyBag
    /\ call = NoCall
    /\ ret = NoCall
    /\ InitAds

\* the next trigger: the run of this instant has finished
TickPeriod ==
    /\ pc[1] = "idle"
    /\ cnow[1].nowUtcMs = now
    /\ now < PeriodicEndMs
    /\ now' = now + PeriodMs
    /\ UNCHANGED << kv, st, cap, pc, ckeys, cnow, crec, cev, processed, sent, why,
                    cres, outcome, alerts, call, ret, avars >>

NextPeriodic ==
    \/ TickPeriod
    \/ CronList(1, TRUE)
    \/ CronGet(1, TRUE)
    \/ CronProcess(1, [kind |-> "ok", items |-> SchedShort])
    \/ CronSend(1, TRUE)
    \/ CronPut(1, TRUE)

SpecPeriodic == InitPeriodic /\ [][NextPeriodic]_vars

-----------------------------------------------------------------------------
(* Properties *)

Msg(rec, ev) == [chatId |-> rec.chatId, url |-> rec.url, ev |-> ev]

\* C1: over cron invocations that run one after another, interleaved with
\* the subscriber's operations, no alert message for the same subscriber,
\* queue URL and eventUtcMs is sent twice.
C1_AtMostOneAlertPerEvent ==
    \A m \in BagToSet(alerts) : CopiesIn(m, alerts) <= 1

\* C2: while the store holds the watermark e that a dispatcher put wrote for
\* a record (the subscriber has not rewritten it), no later invocation that
\* computes the same eventUtcMs e for that record reaches the send.
C2_NoResendAfterPersist ==
    \A i \in Inv :
        pc[i] = "send" =>
            LET k == subKey(crec[i].chatId, crec[i].url)
            IN  k \in DOMAIN kv => kv[k].lastNotifiedEventUtcMs # cev[i]

C2_Witness ==
    \E i \in Inv :
        LET k == subKey(crec[i].chatId, crec[i].url)
        IN  /\ pc[i] = "loop" /\ why[i] = "guard"
            /\ k \in DOMAIN kv
            /\ kv[k].lastNotifiedEventUtcMs = cev[i]
            /\ CopiesIn(Msg(crec[i], cev[i]), alerts) = 1

\* C3: processOneSubscription never reaches the send with a record whose
\* lastNotifiedEventUtcMs is greater than or equal to the computed
\* eventUtcMs, also when the clock snapshot lies inside the firing window.
C3_GuardBlocksSend ==
    \A i \in Inv :
        pc[i] = "send" => crec[i].lastNotifiedEventUtcMs < cev[i]

C3_Witness ==
    \E i \in Inv :
        /\ why[i] = "guard"
        /\ crec[i].lastNotifiedEventUtcMs >= cev[i]
        /\ cnow[i].nowUtcMs >= cev[i] - crec[i].minutesBefore * MsPerMin
        /\ cnow[i].nowUtcMs < cev[i] - crec[i].minutesBefore * MsPerMin
                                  + AlertWindowMin * MsPerMin

\* C4: for an enabled record with the watermark below the event and a
\* schedule that gives a next change, the send is reached iff
\* alertUtcMs <= nowUtcMs < alertUtcMs + 360000 with
\* alertUtcMs = eventUtcMs - minutesBefore*60000.
C4_SendsIffInWindow ==
    \A i \in Inv :
        why[i] \in {"window", "send"} =>
            LET T == cev[i] - crec[i].minutesBefore * 60000
            IN  (why[i] = "send") <=> (T <= cnow[i].nowUtcMs /\ cnow[i].nowUtcMs < T + 360000)

C4_Witness ==
    \E i \in Inv :
        /\ pc[i] = "send"
        /\ cnow[i].nowUtcMs = (cev[i] - 20 * 60000) + 359999

\* C5: the send of an invocation that passed the watermark check on the
\* record it read is not conditional on the store: it stays enabled whatever
\* watermark another invocation has written since (check and write are not
\* atomic), so two overlapping invocations can both send the same alert.
C5_SendNotGuardedByStore ==
    \A i \in Inv : pc[i] = "send" => ENABLED CronSend(i, TRUE)

C5_Witness ==
    /\ pc[1] = "put" /\ pc[2] = "put"
    /\ crec[1] = crec[2]
    /\ cev[1] = cev[2]
    /\ cnow[1] # cnow[2]
    /\ CopiesIn(Msg(crec[1], cev[1]), alerts) = 2

\* C6: for a subscription key whose record exists before and after a step,
\* the stored lastNotifiedEventUtcMs does not decrease.
C6_WatermarkMonotone ==
    [][\A k \in (DOMAIN kv) \cap (DOMAIN kv') :
          kv'[k].lastNotifiedEventUtcMs >= kv[k].lastNotifiedEventUtcMs]_vars

\* C7: a stored watermark e was written only after the alert message for e
\* was delivered: every non-zero stored lastNotifiedEventUtcMs is the event
\* of a message Telegram accepted.
C7_WatermarkOnlyAfterDelivery ==
    \A k \in DOMAIN kv :
        kv[k].lastNotifiedEventUtcMs # 0 =>
            BagIn(Msg(kv[k], kv[k].lastNotifiedEventUtcMs), alerts)

\* the state transitions of a schedule, as minutes of the local day: every
\* block end, and every block start that no block end coincides with
TransitionMins(blocks) ==
    {blocks[j].endMin : j \in 1..Len(blocks)}
    \cup {blocks[j].startMin : j \in {x \in 1..Len(blocks) :
              \A y \in 1..Len(blocks) : blocks[y].endMin # blocks[x].startMin}}

\* C8: with cron runs at a fixed period no longer than the firing window, an
\* unchanged schedule and an enabled subscription, once the firing window of
\* a state transition of the schedule has passed, the alert for that
\* transition has been sent.
C8_EveryTransitionAlerted ==
    \A m \in TransitionMins(fetchScheduleBlocks([kind |-> "ok", items |-> SchedShort]).blocks) :
        LET e == (Day0 * DayMs + m * MsPerMin) - UaOffsetMin * MsPerMin
        IN  now >= (e - AlertMinBefore * MsPerMin) + AlertWindowMin * MsPerMin
                => BagIn([chatId |-> "c1", url |-> "u1", ev |-> e], alerts)

\* C9: an invocation of runCronAlerts that ends (normally or by an
\* exception) has visited every listed key, unless the cap stopped it: a
\* failure on one key leaves no later key unvisited.
C9_FailureDoesNotAbortLoop ==
    \A i \in Inv :
        (pc[i] = "idle" /\ outcome[i] \in {"done", "fatal"}) =>
            \/ ckeys[i] = << >>
            \/ processed[i] >= cap
            \/ (outcome[i] = "fatal" /\ Len(ckeys[i]) = 1)

\* C10: in one invocation of runCronAlerts the number of records passed to
\* processOneSubscription never exceeds ALERT_MAX_PER_CRON; a fetch, a send
\* or a put happens only for a counted record, and the count of alerts sent
\* never exceeds the count of records processed.
C10_CapBoundsProcessed ==
    \A i \in Inv :
        /\ processed[i] <= cap
        /\ sent[i] <= processed[i]
        /\ pc[i] \in {"process", "send", "put"} => processed[i] >= 1

C10_Witness ==
    \E i \in Inv :
        /\ pc[i] = "idle" /\ outcome[i] = "done"
        /\ ckeys[i] # << >>
        /\ processed[i] = cap
        /\ sent[i] = cap

\* C11: a call of processOneSubscription that returns sent=false (record
\* disabled, fetch not ok, no blocks, no next change, watermark guard, or
\* outside the window) sends nothing and writes nothing: the step that takes
\* such a return leaves the store and the delivered alerts as they were
\* (so does the call that ends by the exception of the schedule fetch).
C11_SkipLeavesStoreAlone ==
    [][\A i \in Inv :
          (pc[i] = "process" /\ pc'[i] = "loop") =>
              /\ why'[i] \in {"disabled", "nodata", "nonext", "guard", "window",
                              "error"}
              /\ kv' = kv
              /\ alerts' = alerts]_vars

C11_Witness ==
    \E i \in Inv :
        /\ pc[i] = "loop" /\ why[i] = "guard"
        /\ subKey(crec[i].chatId, crec[i].url) \in DOMAIN kv
        /\ kv[subKey(crec[i].chatId, crec[i].url)] = crec[i]
        /\ crec[i].lastNotifiedEventUtcMs = cev[i]

-----------------------------------------------------------------------------
(* fetchWithRetry and the Telegram call built on it *)

FetchRetryCount == 3
FetchRetryDelayMs == 600

\* largest FETCH_RETRY_COUNT of a deployment considered
MaxTries == 3

\* what one fetch() attempt can give: a 2xx response, a non-2xx response of
\* status below 500 other than 429, a 429, a 5xx, a network error, or the
\* abort by that attempt's own timer
AttemptKinds == {"ok", "http4xx", "http429", "http5xx", "neterr", "timeout"}

dvars == << now, kv, st, cap, pc, ckeys, cnow, crec, cev, processed, sent, why,
            cres, outcome, alerts >>

\* mutant: every non-2xx response is retried
returnedAtOnce_Never(o) == FALSE

\* a non-2xx response that is handed to the caller instead of being retried:
\* res.status < 500 && res.status !== 429
returnedAtOnce(o) == o = "http4xx"

\* the for loop from iteration i on: the attempts made, the sleeps taken and
\* how the function ends ("ok"/"notok": a response is returned; "throw")
RECURSIVE fetchLoop(_, _, _)
fetchLoop(i, tries, outs) ==
    IF i >= tries THEN [attempts |-> 0, sleeps |-> 0, kind |-> "throw"]
    ELSE IF outs[i + 1] = "ok" THEN [attempts |-> 1, sleeps |-> 0, kind |-> "ok"]
    ELSE IF outs[i + 1] \in {"http4xx", "http429", "http5xx"}
            /\ returnedAtOnce(outs[i + 1])
         THEN [attempts |-> 1, sleeps |-> 0, kind |-> "notok"]
    ELSE LET rest == fetchLoop(i + 1, tries, outs)
         IN  [attempts |-> 1 + rest.attempts,
              sleeps |-> (IF i < tries - 1 THEN 1 ELSE 0) + rest.sleeps,
              kind |-> rest.kind]

\* fetchWithRetry with FETCH_RETRY_COUNT = tries, the k-th attempt giving
\* outs[k]; waitedMs is the time spent in sleep(delay)
fetchWithRetry(tries, outs) ==
    LET r == fetchLoop(0, tries, outs)
    IN  [attempts |-> r.attempts, sleeps |-> r.sleeps, kind |-> r.kind,
         waitedMs |-> r.sleeps * FetchRetryDelayMs]

\* tgCall: the HTTP requests made and the ok of the JSON it returns
tgCall(tries, outs) ==
    LET r == fetchWithRetry(tries, outs)
    IN  [requests |-> r.attempts, ok |-> r.kind = "ok"]

sendMessage(tries, outs) == tgCall(tries, outs)

\* the schedule page request: what fetchWithRetry hands to fetchScheduleBlocks
scheduleFetch(tries, outs, page) ==
    LET r == fetchWithRetry(tries, outs)
    IN  [kind |-> r.kind, items |-> IF r.kind = "ok" THEN page ELSE << >>]

\* buildInfo: the text it returns, or that the exception of the fetch
\* passed through it
buildInfo(res) ==
    IF res.kind = "throw" THEN [threw |-> TRUE, text |-> "none"]
    ELSE LET fb == fetchScheduleBlocks(res)
         IN  [threw |-> FALSE,
              text |-> IF ~fb.ok \/ Len(fb.blocks) = 0
                       THEN "couldnotload" ELSE "info"]

HandlerKinds == {"queue", "refresh", "show", "alerts_toggle"}

\* handleCallback for a button that shows the queue: the text put on the
\* screen, whether saveUserState was reached, whether the handler threw
handleCallback(data, res) ==
    LET b == buildInfo(res)
    IN  IF data = "alerts_toggle"
        THEN [threw |-> FALSE, reply |-> b.text, saved |-> TRUE]
        ELSE IF b.threw
        THEN [threw |-> TRUE, reply |-> "none", saved |-> FALSE]
        ELSE [threw |-> FALSE, reply |-> b.text, saved |-> TRUE]

\* fetch(request) on /webhook/<token>: the response status with the effects
webhook(data, res) ==
    LET h == handleCallback(data, res)
    IN  [status |-> IF h.threw THEN 500 ELSE 200, reply |-> h.reply,
         saved |-> h.saved]

\* the webhook requests considered
WebhookCalls ==
    {[fn |-> "webhook", data |-> d, tries |-> FetchRetryCount, outs |-> o,
      page |-> p] :
        d \in HandlerKinds, o \in [1..MaxTries -> AttemptKinds], p \in Pages}

ApplyWebhook ==
    /\ call.fn = "webhook"
    /\ ret' = [fn |-> call.fn,
               val |-> webhook(call.data,
                               scheduleFetch(call.tries, call.outs, call.page))]
    /\ UNCHANGED << dvars, avars, call >>

\* time texts the pattern \d{2}:\d{2} accepts (any two digits twice),
\* restricted to a few hours and minutes
TextHours == {0, 9, 10, 23, 24, 99}
TextMins == {0, 30, 59, 99}
TimeTexts == {<< h, m >> : h \in TextHours, m \in TextMins}

\* items as the page parser yields them
RawItems ==
    {[start |-> s, end |-> e, on |-> o] :
        s \in TimeTexts, e \in TimeTexts, o \in {"true", "false", "null"}}

NormalizeCalls == {[fn |-> "normalizeBlock", b |-> x] : x \in RawItems}

ApplyNormalizeBlock ==
    /\ call.fn = "normalizeBlock"
    /\ ret' = [fn |-> call.fn, val |-> normalizeBlock(call.b)]
    /\ UNCHANGED << dvars, avars, call >>

\* schedule page requests answered with a page of one parsed item
ParseCalls ==
    {[fn |-> "fetchScheduleBlocks", res |-> [kind |-> "ok", items |-> << x >>]] :
        x \in RawItems}

ApplyFetchScheduleBlocks ==
    /\ call.fn = "fetchScheduleBlocks"
    /\ ret' = [fn |-> call.fn, val |-> fetchScheduleBlocks(call.res)]
    /\ UNCHANGED << dvars, avars, call >>

\* fmtDelta(min): the hours and minutes it prints
fmtDelta(min) ==
    LET m == IF min > 0 THEN min ELSE 0
    IN  << m \div 60, m % 60 >>

\* longest block list considered
MaxBlocks == 2

StatusTexts == {<< 8, 0 >>, << 10, 0 >>, << 18, 0 >>}
StatusItems ==
    {[start |-> s, end |-> e, on |-> o] :
        s \in StatusTexts, e \in StatusTexts, o \in {"true", "false", "null"}}
StatusPages == UNION {[1..n -> StatusItems] : n \in 0..MaxBlocks}
NowMins == {479, 480, 590, 600, 1080}

\* calls of computeStatus, and of processOneSubscription on a fresh enabled
\* record, for the page and the local minute of day given
StatusCalls ==
    {[fn |-> f, items |-> p, nowMin |-> n] :
        f \in {"computeStatus", "processOneSubscription"},
        p \in StatusPages, n \in NowMins}

ApplyComputeStatus ==
    /\ call.fn = "computeStatus"
    /\ LET blocks == fetchScheduleBlocks([kind |-> "ok", items |-> call.items]).blocks
           meta == computeStatus(blocks, call.nowMin)
       IN  ret' = [fn |-> call.fn,
                   val |-> [blocks |-> blocks, meta |-> meta,
                            delta |-> fmtDelta(meta.delta)]]
    /\ UNCHANGED << dvars, avars, call >>

\* processOneSubscription up to its decision, at the instant of Day0 whose
\* local minute of day is nowMin
ApplyProcessOne ==
    /\ call.fn = "processOneSubscription"
    /\ LET rec == [chatId |-> "c1", url |-> "u1", minutesBefore |-> AlertMinBefore,
                   enabled |-> TRUE, lastNotifiedEventUtcMs |-> 0]
           n == uaLocalNow(Day0 * DayMs + (call.nowMin - UaOffsetMin) * MsPerMin)
           res == [kind |-> "ok", items |-> call.items]
       IN  ret' = [fn |-> call.fn,
                   val |-> [why |-> decide(rec, n, res),
                            blocks |-> fetchScheduleBlocks(res).blocks,
                            nowMin |-> n.minutes]]
    /\ UNCHANGED << dvars, avars, call >>


\* uaLocalNow for a deployment whose UA_TZ_OFFSET_MIN is off
uaLocalNowAt(t, off) ==
    LET localMs == t + off * MsPerMin
    IN  [nowUtcMs |-> t, localMs |-> localMs, offMin |-> off,
         minutes |-> (localMs \div MsPerMin) % MinPerDay]

\* the HH:MM of the alert text: getUTCHours / getUTCMinutes of
\* new Date(eventUtcMs + now.offMin * 60_000)
alertAtText(ev, off) ==
    LET mins == ((ev + off * MsPerMin) \div MsPerMin) % MinPerDay
    IN  << mins \div 60, mins % 60 >>

\* clock instants and UTC offsets (minutes) for the projection
ProjInstants ==
    {Day0 * DayMs - 1, Day0 * DayMs, Day0 * DayMs + 11 * 3600000 + 59999}
ProjOffsets == {-765, -60, -1, 0, 120, 345}

ProjectCalls ==
    {[fn |-> "eventUtcMs", t |-> t, off |-> o, m |-> m] :
        t \in ProjInstants, o \in ProjOffsets, m \in 0..(MinPerDay - 1)}

ApplyEventUtcMs ==
    /\ call.fn = "eventUtcMs"
    /\ LET n == uaLocalNowAt(call.t, call.off)
           ev == eventUtcMs(n, call.m)
       IN  ret' = [fn |-> call.fn,
                   val |-> [n |-> n, ev |-> ev, at |-> alertAtText(ev, n.offMin)]]
    /\ UNCHANGED << dvars, avars, call >>


\* parseTokens on a comma-separated BOT_TOKENS: the entries, empty ones dropped
parseTokens(raw) == SelectSeq(raw, LAMBDA x : x # "")

\* mutant of the token check: every token passes
tokenListed_Any(token, tokens) == TRUE

\* tokens.includes(token)
tokenListed(token, tokens) == \E i \in 1..Len(tokens) : tokens[i] = token

\* fetch(request) on /webhook/<token> with a callback update: the response
\* status, whether handleUpdate was entered (it loads the user state first),
\* the text put on the screen and whether the user state was saved
fetch(token, raw, data, res) ==
    IF ~tokenListed(token, parseTokens(raw))
    THEN [status |-> 403, handled |-> FALSE, loaded |-> FALSE, reply |-> "none",
          saved |-> FALSE]
    ELSE LET w == webhook(data, res)
         IN  [status |-> w.status, handled |-> TRUE, loaded |-> TRUE,
              reply |-> w.reply, saved |-> w.saved]

\* the token of the request path and the entries of BOT_TOKENS
PathTokens == {"t1", "t2", "evil", ""}
RawTokens == UNION {[1..n -> {"t1", "t2", ""}] : n \in 0..2}

RequestCalls ==
    {[fn |-> "fetch", token |-> t, raw |-> r, data |-> d, res |-> o] :
        t \in PathTokens, r \in RawTokens, d \in HandlerKinds, o \in FetchOutcomes}

ApplyFetch ==
    /\ call.fn = "fetch"
    /\ ret' = [fn |-> call.fn,
               val |-> fetch(call.token, call.raw, call.data, call.res)]
    /\ UNCHANGED << dvars, avars, call >>

\* A page as the regular expressions of the extractors see it: a sequence of
\* pieces of text, each with its width in characters.  "open" is a match of
\* <li[^>]*>, "close" of </li>, "range" of (\d{2}:\d{2})\s*[-]\s*(\d{2}:\d{2}),
\* "off" and "on" a marker of the first and of the second pattern of
\* detectOnOff, "pad" text that matches none of them.
NoTime == << 0, 0 >>
Piece(t, w) == [t |-> t, w |-> w, start |-> NoTime, end |-> NoTime]
Range(s, e) == [t |-> "range", w |-> 11, start |-> s, end |-> e]
RangeA == Range(<< 8, 0 >>, << 10, 0 >>)
RangeB == Range(<< 10, 0 >>, << 12, 0 >>)
LiOpen == Piece("open", 4)
LiClose == Piece("close", 5)
MarkOff == Piece("off", 8)
MarkOn == Piece("on", 7)

\* t.index of the piece i of the page: the characters before it
RECURSIVE posOf(_, _)
posOf(html, i) == IF i <= 1 THEN 0 ELSE posOf(html, i - 1) + html[i - 1].w

\* detectOnOff(fragment): the pieces of the fragment are searched for an off
\* marker first, then for an on marker
detectOnOff(frag) ==
    IF \E i \in 1..Len(frag) : frag[i].t = "off" THEN "false"
    ELSE IF \E i \in 1..Len(frag) : frag[i].t = "on" THEN "true"
    ELSE "null"

\* the first piece of kind t at or after the piece i, 0 when there is none
RECURSIVE firstAt(_, _, _)
firstAt(html, i, t) ==
    IF i > Len(html) THEN 0
    ELSE IF html[i].t = t THEN i
    ELSE firstAt(html, i + 1, t)

\* the while loop over liRe in extractLiItems, from the piece i on
RECURSIVE liLayout(_, _)
liLayout(html, i) ==
    LET o == firstAt(html, i, "open")
        c == IF o = 0 THEN 0 ELSE firstAt(html, o + 1, "close")
    IN  IF o = 0 \/ c = 0 THEN << >>
        ELSE LET inner == SubSeq(html, o + 1, c - 1)
                 tm == firstAt(inner, 1, "range")
             IN  (IF tm = 0 THEN << >>
                  ELSE << [start |-> inner[tm].start, end |-> inner[tm].end,
                           on |-> detectOnOff(inner)] >>)
                 \o liLayout(html, c + 1)

\* s.slice(fragStart, fragEnd) around the match at the piece i: the pieces
\* that lie whole between pos - 160 and pos + 260
FragBefore == 160
FragAfter == 260
fragOf(html, i) ==
    LET pos == posOf(html, i)
        len == posOf(html, Len(html) + 1)
        fragStart == IF pos - FragBefore > 0 THEN pos - FragBefore ELSE 0
        fragEnd == IF pos + FragAfter < len THEN pos + FragAfter ELSE len
    IN  SelectSeq([k \in 1..Len(html) |->
                      IF posOf(html, k) >= fragStart /\ posOf(html, k + 1) <= fragEnd
                      THEN html[k] ELSE Piece("pad", html[k].w)],
                  LAMBDA x : x.t # "pad")

\* key of a match of the extended scan: `${start}-${end}-${on}`
keyOf(html, i) == << html[i].start, html[i].end, detectOnOff(fragOf(html, i)) >>
NoKey == << >>
NoPos == -9999
NearDupChars == 40

nearDuplicate_Inclusive(key, pos, lastKey, lastPos) ==
    key = lastKey /\ (pos - lastPos) <= NearDupChars

\* key === lastKey && (pos - lastPos) < 40
nearDuplicate(key, pos, lastKey, lastPos) ==
    key = lastKey /\ (pos - lastPos) < NearDupChars

\* the while loop over timeRe in extractLiItems, from the piece i on
RECURSIVE extendedScan(_, _, _, _)
extendedScan(html, i, lastKey, lastPos) ==
    LET t == firstAt(html, i, "range")
    IN  IF t = 0 THEN << >>
        ELSE LET key == keyOf(html, t)
                 pos == posOf(html, t)
             IN  IF nearDuplicate(key, pos, lastKey, lastPos)
                 THEN extendedScan(html, t + 1, lastKey, lastPos)
                 ELSE << [start |-> html[t].start, end |-> html[t].end, on |-> key[3]] >>
                      \o extendedScan(html, t + 1, key, pos)

extractLiItems_BothLayouts(html) ==
    liLayout(html, 1) \o extendedScan(html, 1, NoKey, NoPos)

extractLiItems(html) ==
    LET blocks == liLayout(html, 1)
    IN  IF Len(blocks) # 0 THEN blocks
        ELSE extendedScan(html, 1, NoKey, NoPos)

extractTimeOnly(html) ==
    LET ms == SelectSeq(html, LAMBDA x : x.t = "range")
    IN  [k \in 1..Len(ms) |-> [start |-> ms[k].start, end |-> ms[k].end, on |-> "null"]]

\* fetchScheduleBlocks on a page that was served: which extractor gave the
\* items, and the blocks returned
fetchScheduleBlocksOf(html) ==
    LET items == extractLiItems(html)
        loose == Len(items) = 0
    IN  [loose |-> loose,
         blocks |-> fetchScheduleBlocks(
                        [kind |-> "ok",
                         items |-> IF loose THEN extractTimeOnly(html) ELSE items]).blocks]

\* pages of the older layout, of at most MaxLiPieces pieces, and pages of the
\* newer one, of at most MaxCardPieces pieces; the pads put two matches 39, 40
\* and 163 characters apart
MaxLiPieces == 6
MaxCardPieces == 5
LiPieces == {LiOpen, LiClose, RangeA, RangeB, MarkOn}
CardPieces == {RangeA, RangeB, Piece("pad", 28), Piece("pad", 29), Piece("pad", 152), MarkOff}
HtmlPages ==
    UNION {[1..n -> LiPieces] : n \in 0..MaxLiPieces}
    \cup UNION {[1..n -> CardPieces] : n \in 0..MaxCardPieces}
HtmlCalls == {[fn |-> "extract", html |-> h] : h \in HtmlPages}

ApplyExtract ==
    /\ call.fn = "extract"
    /\ ret' = [fn |-> call.fn, val |-> fetchScheduleBlocksOf(call.html)]
    /\ UNCHANGED << dvars, avars, call >>

\* processOneSubscription on a record never notified, at local instants around
\* the windows of the changes of the pages and around local midnight
AlertItems ==
    {[start |-> << 8, 0 >>, end |-> << 10, 0 >>, on |-> "false"],
     [start |-> << 10, 0 >>, end |-> << 18, 0 >>, on |-> "true"],
     [start |-> << 23, 0 >>, end |-> << 1, 0 >>, on |-> "false"],
     [start |-> << 23, 30 >>, end |-> << 0, 10 >>, on |-> "false"]}
AlertPages == UNION {[1..n -> AlertItems] : n \in 0..MaxBlocks}
LocalMinutes ==
    {579, 580, 585, 586, 594, 595, 599, 600, 1429, 1430, 1435, 1439,
     MinPerDay, MinPerDay + 39, MinPerDay + 40, MinPerDay + 45, MinPerDay + 46}
MsInMinute == {0, MsPerMin - 1}
MinutesBeforeSet == {0, 5, AlertMinBefore}
AlertCalls ==
    {[fn |-> "alert", items |-> p, localMin |-> m, ms |-> x, minutesBefore |-> b] :
        p \in AlertPages, m \in LocalMinutes, x \in MsInMinute, b \in MinutesBeforeSet}

ApplyAlert ==
    /\ call.fn = "alert"
    /\ LET rec == [chatId |-> "c1", url |-> "u1", minutesBefore |-> call.minutesBefore,
                   enabled |-> TRUE, lastNotifiedEventUtcMs |-> 0]
           n == uaLocalNow(Day0 * DayMs + (call.localMin - UaOffsetMin) * MsPerMin
                           + call.ms)
           res == [kind |-> "ok", items |-> call.items]
           blocks == fetchScheduleBlocks(res).blocks
           meta == computeStatus(blocks, n.minutes)
       IN  ret' = [fn |-> call.fn,
                   val |-> [now |-> n, blocks |-> blocks,
                            nextChangeMin |-> meta.nextChangeMin,
                            ev |-> IF meta.nextChangeMin = NullMin THEN 0
                                   ELSE eventUtcMs(n, meta.nextChangeMin),
                            minsBefore |-> minsBefore(rec),
                            why |-> decide(rec, n, res)]]
    /\ UNCHANGED << dvars, avars, call >>

\* the calls of fetchWithRetry and of sendMessage considered
FetchCalls ==
    {[fn |-> f, tries |-> t, outs |-> o] :
        f \in {"fetchWithRetry", "sendMessage"}, t \in 0..MaxTries,
        o \in [1..MaxTries -> AttemptKinds]}

ApplyFetchWithRetry ==
    /\ call.fn = "fetchWithRetry"
    /\ ret' = [fn |-> call.fn, val |-> fetchWithRetry(call.tries, call.outs)]
    /\ UNCHANGED << dvars, avars, call >>

ApplySendMessage ==
    /\ call.fn = "sendMessage"
    /\ ret' = [fn |-> call.fn, val |-> sendMessage(call.tries, call.outs)]
    /\ UNCHANGED << dvars, avars, call >>

(* The functions called on their own: a behaviour is one call, on an input *)
(* drawn from the bounded sets, and its return.                            *)
InitCalls ==
    /\ now = StartMs
    /\ kv = << >>
    /\ st = [c \in Chats |-> defaultUserState]
    /\ cap = 1
    /\ pc = [i \in Inv |-> "idle"]
    /\ ckeys = [i \in Inv |-> << >>]
    /\ cnow = [i \in Inv |-> NoNow]
    /\ crec = [i \in Inv |-> NoRec]
    /\ cev = [i \in Inv |-> 0]
    /\ processed = [i \in Inv |-> 0]
    /\ sent = [i \in Inv |-> 0]
    /\ why = [i \in Inv |-> "none"]
    /\ cres = [i \in Inv |-> FALSE]
    /\ outcome = [i \in Inv |-> "none"]
    /\ alerts = EmptyBag
    /\ \/ call \in FetchCalls
       \/ call \in WebhookCalls
       \/ call \in NormalizeCalls
       \/ call \in ParseCalls
       \/ call \in ProjectCalls
       \/ call \in RequestCalls
       \/ call \in HtmlCalls
       \/ call \in AlertCalls
       \/ call \in StatusCalls
    /\ ret = NoCall
    /\ InitAds

NextCalls ==
    \/ ApplyFetchWithRetry
    \/ ApplySendMessage
    \/ ApplyWebhook
    \/ ApplyNormalizeBlock
    \/ ApplyFetchScheduleBlocks
    \/ ApplyComputeStatus
    \/ ApplyEventUtcMs
    \/ ApplyFetch
    \/ ApplyExtract
    \/ ApplyAlert
    \/ ApplyProcessOne

SpecCalls == InitCalls /\ [][NextCalls]_vars

\* the attempts of a call that end it: the first one that is not retried
Final(c) == {k \in 1..c.tries : c.outs[k] \in {"ok", "http4xx"}}

C13_FetchFailureDegrades ==
    (/\ ret.fn = "webhook"
     /\ call.data \in {"queue", "refresh", "show"}
     /\ \A k \in 1..call.tries :
            call.outs[k] \in {"http429", "http5xx", "neterr", "timeout"})
        => /\ ret.val.status = 200
           /\ ret.val.reply = "couldnotload"
           /\ ret.val.saved

\* C14: for one alert the dispatcher's single sendMessage causes at most one
\* HTTP request to Telegram, whatever the outcome of that request.
C14_OneRequestPerSend ==
    ret.fn = "sendMessage" => ret.val.requests <= 1

\* C15: while a subscriber's alerts are off (from the end of the request
\* that toggled them off until they are toggled on again) the store holds
\* no subscription key of that subscriber, so a cron invocation that starts
\* meanwhile finds nothing to send to them.
C15_NoKeysWhileOff ==
    \A c \in Chats :
        ~st[c].alerts => \A k \in DOMAIN kv : k[1] # c

\* what normalizeBlock is to compute from the two time texts
RolledEnd(b) ==
    IF toMin(b.end) < toMin(b.start) THEN toMin(b.end) + MinPerDay
    ELSE toMin(b.end)

\* C16 (original statement): startMin = toMin(start); endMin = toMin(end),
\* plus 1440 when toMin(end) < toMin(start); and endMin > startMin holds
\* for every normalized block.
C16_EndAfterStart ==
    ret.fn = "normalizeBlock" =>
        /\ ret.val.startMin = toMin(call.b.start)
        /\ ret.val.endMin = RolledEnd(call.b)
        /\ ret.val.endMin > ret.val.startMin

\* C16: startMin = toMin(start); endMin = toMin(end), plus 1440 when
\* toMin(end) < toMin(start), with no other adjustment; for a start that is
\* a time of day (below 1440) endMin >= startMin, with equality exactly
\* when end and start are the same minute.
C16_EndNotBeforeStart ==
    ret.fn = "normalizeBlock" =>
        /\ ret.val.startMin = toMin(call.b.start)
        /\ ret.val.endMin = RolledEnd(call.b)
        /\ ret.val.start = call.b.start /\ ret.val.end = call.b.end
        /\ ret.val.on = call.b.on
        /\ toMin(call.b.start) < MinPerDay =>
               /\ ret.val.endMin >= ret.val.startMin
               /\ (ret.val.endMin = ret.val.startMin)
                      <=> (toMin(call.b.end) = toMin(call.b.start))

C16_Witness ==
    /\ ret.fn = "normalizeBlock"
    /\ call.b.start = << 23, 0 >> /\ call.b.end = << 0, 30 >>
    /\ ret.val.startMin = 1380 /\ ret.val.endMin = 1470

\* C17: every block returned by fetchScheduleBlocks has
\* 0 <= startMin < 1440 and startMin <= endMin <= startMin + 1440, for any
\* two-digit time texts found in the page.
C17_BlockRanges ==
    ret.fn = "fetchScheduleBlocks" =>
        \A i \in 1..Len(ret.val.blocks) :
            LET b == ret.val.blocks[i]
            IN  /\ 0 <= b.startMin /\ b.startMin < MinPerDay
                /\ b.startMin <= b.endMin
                /\ b.endMin <= b.startMin + MinPerDay

\* a chronologically sorted list of non-overlapping blocks
Sorted(blocks) ==
    \A j, k \in 1..Len(blocks) : j < k => blocks[j].endMin <= blocks[k].startMin

Contains(b, nowMin) == b.startMin <= nowMin /\ nowMin < b.endMin

\* the change a state is left by, and the status line of a state
Negation(on) == IF on = "true" THEN "off" ELSE IF on = "false" THEN "on" ELSE "unknown"
Own(on) == IF on = "true" THEN "on" ELSE IF on = "false" THEN "off" ELSE "unknown"

\* C18: on a sorted, non-overlapping list, a block b with
\* b.startMin <= nowMin < b.endMin is reported as current: nextChangeMin is
\* b.endMin, nextChangeType the negation of b's state (unknown exactly when
\* b's state is unknown), and the time until the change b.endMin - nowMin
\* minutes, printed as hours and minutes.
C18_CurrentBlockReported ==
    (ret.fn = "computeStatus" /\ Sorted(ret.val.blocks)) =>
        \A j \in 1..Len(ret.val.blocks) :
            LET b == ret.val.blocks[j]
                d == b.endMin - call.nowMin
            IN  Contains(b, call.nowMin) =>
                    /\ ret.val.meta.status = Own(b.on)
                    /\ ret.val.meta.nextChangeMin = b.endMin
                    /\ ret.val.meta.nextChangeAtText = b.end
                    /\ ret.val.meta.nextChangeType = Negation(b.on)
                    /\ (ret.val.meta.nextChangeType = "unknown") <=> (b.on = "null")
                    /\ ret.val.meta.delta = d
                    /\ ret.val.delta = << d \div 60, d % 60 >>

C18_Witness ==
    /\ ret.fn = "computeStatus" /\ call.nowMin = 590
    /\ call.items = SchedA
    /\ ret.val.meta.status = "off" /\ ret.val.meta.nextChangeType = "on"
    /\ ret.val.meta.nextChangeMin = 600 /\ ret.val.delta = << 0, 10 >>

\* C19: in any list (unsorted or overlapping) the current block is the
\* first in source order that contains nowMin, and it is preferred to any
\* next block; with no current block the next block is the first in source
\* order whose startMin > nowMin, and the change reported is its startMin
\* and its own state.
C19_FirstMatchWins ==
    ret.fn = "computeStatus" =>
        LET blocks == ret.val.blocks
            cur == {j \in 1..Len(blocks) : Contains(blocks[j], call.nowMin)}
            later == {j \in 1..Len(blocks) : blocks[j].startMin > call.nowMin}
        IN  /\ \A j \in cur :
                   (\A k \in cur : j <= k) =>
                       /\ ret.val.meta.nextChangeMin = blocks[j].endMin
                       /\ ret.val.meta.nextChangeAtText = blocks[j].end
                       /\ ret.val.meta.nextChangeType = Negation(blocks[j].on)
            /\ cur = {} =>
                   \A j \in later :
                       (\A k \in later : j <= k) =>
                           /\ ret.val.meta.nextChangeMin = blocks[j].startMin
                           /\ ret.val.meta.nextChangeAtText = blocks[j].start
                           /\ ret.val.meta.nextChangeType = Own(blocks[j].on)

C19_Witness ==
    /\ ret.fn = "computeStatus" /\ call.nowMin = 479
    /\ Len(ret.val.blocks) = 2
    /\ ret.val.blocks[1].startMin = 600 /\ ret.val.blocks[2].startMin = 480
    /\ ret.val.blocks[1].on = "null"
    /\ ret.val.meta.nextChangeMin = 600
    /\ ret.val.meta.nextChangeType = "unknown"

\* C20: when no block contains nowMin and none starts after it (so for the
\* empty list), computeStatus gives nextChangeMin = null and
\* nextChangeType = null with the no-data status, and processOneSubscription
\* returns without reaching the send.
C20_NoChangeNoAlert ==
    /\ ret.fn = "computeStatus" =>
           ((\A j \in 1..Len(ret.val.blocks) :
                 /\ ~Contains(ret.val.blocks[j], call.nowMin)
                 /\ ret.val.blocks[j].startMin <= call.nowMin)
               => /\ ret.val.meta.nextChangeMin = NullMin
                  /\ ret.val.meta.nextChangeType = "null"
                  /\ ret.val.meta.status = "nodata")
    /\ ret.fn = "processOneSubscription" =>
           ((\A j \in 1..Len(ret.val.blocks) :
                 /\ ~Contains(ret.val.blocks[j], ret.val.nowMin)
                 /\ ret.val.blocks[j].startMin <= ret.val.nowMin)
               => ret.val.why \in {"nodata", "nonext"})

C20_Witness ==
    /\ ret.fn = "processOneSubscription" /\ ret.val.nowMin = 1080
    /\ Len(ret.val.blocks) = 2
    /\ ret.val.blocks[1].endMin = 600 /\ ret.val.blocks[2].endMin = 1080
    /\ ret.val.why = "nonext"

\* C21: for every local minute m of [0, 1440), every instant and every
\* integer offset (negative ones and non-multiples of 60 too), eventUtcMs
\* projected back, floor((eventUtcMs + off * 60000) / 60000) mod 1440, is m,
\* it lies on the local day of the clock snapshot, and the HH:MM of the
\* alert text is that minute.
C21_ProjectionRoundTrip ==
    ret.fn = "eventUtcMs" =>
        LET shifted == ret.val.ev + call.off * MsPerMin
        IN  /\ (shifted \div MsPerMin) % MinPerDay = call.m
            /\ shifted % MsPerMin = 0
            /\ shifted \div DayMs = (call.t + call.off * MsPerMin) \div DayMs
            /\ ret.val.at = << call.m \div 60, call.m % 60 >>

C21_Witness ==
    /\ ret.fn = "eventUtcMs"
    /\ call.off = -765 /\ call.m = 1439 /\ call.t = Day0 * DayMs
    /\ ret.val.at = << 23, 59 >>
    /\ ret.val.n.minutes = 675

\* C22: a webhook request whose token is not listed in BOT_TOKENS is
\* answered 403 without any store read or write and without any message;
\* handleUpdate is entered only for a listed token.
C22_UnlistedTokenRejected ==
    ret.fn = "fetch" =>
        LET listed == call.token # ""
                      /\ \E i \in 1..Len(call.raw) : call.raw[i] = call.token
        IN  /\ ~listed => /\ ret.val.status = 403
                          /\ ~ret.val.loaded /\ ~ret.val.saved
                          /\ ret.val.reply = "none"
            /\ ret.val.handled <=> listed

C22_Witness ==
    /\ ret.fn = "fetch"
    /\ call.token = "evil" /\ call.raw = << "t1", "t2" >>
    /\ call.data = "queue" /\ call.res.kind = "ok" /\ call.res.items = SchedA
    /\ ret.val.status = 403 /\ ~ret.val.handled

-----------------------------------------------------------------------------
(* Ads: maybeShowAd under the actions of the users and of the admin *)

MsPerSec == 1000
FreqMax == 20

\* bounds: clock advances of one second, maybeShowAd calls per chat, largest
\* frequency the admin goes up to
AdTicks == 3
MaxCalls == 3
MaxFreq == 3

\* cooldowns the admin sets (seconds)
CooldownSecs == {0, 2}

\* mutant of isAdmin: every chat is the admin
isAdmin_Anyone(chatId) == TRUE

isAdmin(chatId) == chatId = AdminId

\* mutant of the cooldown check: the timer never blocks
cooldownOver_Always(a, t) == TRUE

\* not (Number(st.ad.nextAtMs || 0) > now)
cooldownOver(a, t) == ~(a.nextAtMs > t)

\* mutant of maybeShowAd: the action is counted before the exemptions
maybeShowAd_CountsFirst(chatId, a, c, t) ==
    [ad |-> [a EXCEPT !.counter = @ + 1], how |-> "exempt"]

\* maybeShowAd at time t: the new st.ad and the return taken ("sent": after
\* sendAdItem)
maybeShowAd(chatId, a, c, t) ==
    IF isAdmin(chatId) \/ chatId \in c.whitelist \/ ~c.enabled
    THEN [ad |-> a, how |-> "exempt"]
    ELSE IF ~cooldownOver(a, t) THEN [ad |-> a, how |-> "cooldown"]
    ELSE LET counter == a.counter + 1
             freq == IF c.frequency > 1 THEN c.frequency ELSE 1
             cd == IF c.cooldownSec > 0 THEN c.cooldownSec ELSE 0
         IN  IF counter % freq # 0
             THEN [ad |-> [a EXCEPT !.counter = counter], how |-> "counted"]
             ELSE [ad |-> [counter |-> counter,
                           nextAtMs |-> IF cd > 0 THEN t + cd * MsPerSec
                                        ELSE a.nextAtMs],
                   how |-> "sent"]

\* everything but the clock and the ads
svars == << kv, st, cap, pc, ckeys, cnow, crec, cev, processed, sent, why, cres,
            outcome, alerts, call, ret >>

\* a message or button of chat c whose handler ends with maybeShowAd
UserAction(c) ==
    /\ adlog[c].calls < MaxCalls
    /\ LET r == maybeShowAd(c, ad[c], cfg, now)
       IN  /\ ad' = [ad EXCEPT ![c] = r.ad]
           /\ adlog' = [adlog EXCEPT ![c] =
                 IF r.how = "sent"
                 THEN [calls |-> @.calls + 1, n |-> @.n + 1, lastMs |-> now,
                       lastCd |-> cfg.cooldownSec, blocked |-> 0,
                       lastBlocked |-> @.blocked]
                 ELSE IF r.how = "cooldown"
                 THEN [@ EXCEPT !.calls = @ + 1, !.blocked = @ + 1]
                 ELSE [@ EXCEPT !.calls = @ + 1]]
    /\ UNCHANGED << now, cfg, svars >>

\* admin|toggle_ad
AdminToggleAds ==
    /\ cfg' = [cfg EXCEPT !.enabled = ~@]
    /\ UNCHANGED << now, ad, adlog, svars >>

\* admin|freq_up (ads more often: frequency - 1) and admin|freq_down
AdminFreqDec ==
    /\ cfg' = [cfg EXCEPT !.frequency = IF @ - 1 > 1 THEN @ - 1 ELSE 1]
    /\ UNCHANGED << now, ad, adlog, svars >>

AdminFreqInc ==
    /\ cfg.frequency < MaxFreq
    /\ cfg' = [cfg EXCEPT !.frequency = IF @ + 1 < FreqMax THEN @ + 1 ELSE FreqMax]
    /\ UNCHANGED << now, ad, adlog, svars >>

\* the admin's text in mode await_ad_timer
AdminSetTimer(sec) ==
    /\ cfg' = [cfg EXCEPT !.cooldownSec = IF sec > 0 THEN sec ELSE 0]
    /\ UNCHANGED << now, ad, adlog, svars >>

\* the admin's text in mode await_wl_add / await_wl_del
AdminWhitelist(add, id) ==
    /\ cfg' = [cfg EXCEPT !.whitelist = IF add THEN @ \cup {id} ELSE @ \ {id}]
    /\ UNCHANGED << now, ad, adlog, svars >>

TickAd ==
    /\ now < StartMs + AdTicks * MsPerSec
    /\ now' = now + MsPerSec
    /\ UNCHANGED << cfg, ad, adlog, svars >>

NextAds ==
    \/ TickAd
    \/ \E c \in AdChats : UserAction(c)
    \/ AdminToggleAds
    \/ AdminFreqDec
    \/ AdminFreqInc
    \/ \E sec \in CooldownSecs : AdminSetTimer(sec)
    \/ \E add \in BOOLEAN, id \in AdChats : AdminWhitelist(add, id)

\* the state after construction, with one value of the cap of the dispatcher
InitAdRequests == Init /\ cap = 1

SpecAds == InitAdRequests /\ [][NextAds]_vars

\* C23: whatever the admin and the users did before, a call of maybeShowAd
\* for the admin chat, for a chat on the whitelist of the config at that
\* moment, or while ads are disabled sends no ad and leaves the user's ad
\* counter and cooldown as they were.
C23_ExemptChatsGetNoAd ==
    [][\A c \in AdChats :
          (c = AdminId \/ c \in cfg.whitelist \/ ~cfg.enabled) =>
              /\ adlog'[c].n = adlog[c].n
              /\ ad'[c] = ad[c]]_vars

C23_Witness ==
    /\ "c1" \in cfg.whitelist /\ cfg.enabled /\ cfg.frequency = 1
    /\ adlog["c1"].calls = 2 /\ adlog["c1"].n = 0
    /\ ad["c1"] = defaultAd
    /\ adlog[AdminId].calls = 1 /\ ad[AdminId] = defaultAd

WriteIncomplete(i) ==
    \/ pc[i] = "put"
    \/ pc[i] = "loop" /\ why[i] = "error" /\ cev[i] # 0

\* the snapshot of invocation i lies in the firing window of the event ev
InFiringWindow(i, ev) ==
    LET open == ev - minsBefore(crec[i]) * MsPerMin
    IN  cnow[i].nowUtcMs >= open /\ cnow[i].nowUtcMs < open + AlertWindowMin * MsPerMin

\* C25: while an invocation has sent the alert of an event and its write of
\* the watermark has not completed (the put is ahead, or it threw), the
\* stored watermark of the subscription is below the event; and an invocation
\* that holds a record whose watermark is below an event already alerted,
\* with its snapshot inside the firing window of that event, has not skipped
\* it: it is at the send of that event again.
C25_DuplicateOnFailure ==
    \A i \in Inv :
        /\ WriteIncomplete(i) =>
              LET k == subKey(crec[i].chatId, crec[i].url)
              IN  k \in DOMAIN kv => kv[k].lastNotifiedEventUtcMs < cev[i]
        /\ ( /\ cev[i] # 0
             /\ crec[i].lastNotifiedEventUtcMs < cev[i]
             /\ InFiringWindow(i, cev[i])
             /\ BagIn([chatId |-> crec[i].chatId, url |-> crec[i].url,
                       ev |-> cev[i]], alerts) )
           => (pc[i] = "send" /\ why[i] = "send")

\* an invocation is about to send an event that was already delivered, from a
\* stored record whose watermark is that of an earlier event: the watermark of
\* the delivered event was never written
C25_Witness ==
    \E i \in Inv :
        /\ pc[i] = "send"
        /\ BagIn([chatId |-> crec[i].chatId, url |-> crec[i].url, ev |-> cev[i]], alerts)
        /\ LET k == subKey(crec[i].chatId, crec[i].url)
           IN  /\ k \in DOMAIN kv
               /\ kv[k] = crec[i]
               /\ kv[k].lastNotifiedEventUtcMs # 0
               /\ kv[k].lastNotifiedEventUtcMs < cev[i]

(***************************************************************************)
(* The extractors of the schedule page                                     *)
(***************************************************************************)

\* the piece i opens a list-item fragment: a closing tag follows it, and every
\* opening tag before it is closed before i
FragStart(html, i) ==
    /\ html[i].t = "open"
    /\ \E j \in (i + 1)..Len(html) : html[j].t = "close"
    /\ \A k \in 1..(i - 1) :
          html[k].t = "open" => \E c \in (k + 1)..(i - 1) : html[c].t = "close"

\* the pieces inside the fragment opened at i, up to its closing tag
FragInner(html, i) ==
    {r \in (i + 1)..Len(html) : \A c \in (i + 1)..r : html[c].t # "close"}

FragPairs(html, i) == {r \in FragInner(html, i) : html[r].t = "range"}

\* the fragments that hold a time pair
PairFrags(html) ==
    {i \in 1..Len(html) : FragStart(html, i) /\ FragPairs(html, i) # {}}

Least(S) == CHOOSE x \in S : \A y \in S : x <= y

\* C26: the blocks come from extractTimeOnly only when extractLiItems returned
\* no block, and every block of extractTimeOnly has the state unknown; when
\* list-item fragments hold a time pair the blocks returned are those of the
\* fragments: one for each fragment that holds a pair, made of its first
\* pair, in the order of the page.
C26_StructuredBeforeLoose ==
    ret.fn = "extract" =>
        LET html == call.html
            F == PairFrags(html)
            loose == extractTimeOnly(html)
        IN  /\ ret.val.loose => extractLiItems(html) = << >>
            /\ \A k \in 1..Len(loose) : loose[k].on = "null"
            /\ F # {} =>
                  /\ ~ret.val.loose
                  /\ Len(ret.val.blocks) = Cardinality(F)
                  /\ \A i \in F :
                        LET n == Cardinality({x \in F : x <= i})
                            r == Least(FragPairs(html, i))
                        IN  /\ ret.val.blocks[n].start = html[r].start
                            /\ ret.val.blocks[n].end = html[r].end
                            /\ ret.val.blocks[n].on =
                                   IF \E m \in FragInner(html, i) : html[m].t = "on"
                                   THEN "true" ELSE "null"

\* a page of two list items that hold a pair each, the later time first: the
\* two blocks are returned in the order of the page
C26_Witness ==
    /\ ret.fn = "extract"
    /\ call.html = << LiOpen, RangeB, LiClose, LiOpen, RangeA, LiClose >>
    /\ Len(ret.val.blocks) = 2
    /\ ret.val.blocks[1].start = << 10, 0 >>
    /\ ret.val.blocks[2].start = << 8, 0 >>

\* the matches of the time pattern in the page, and the last of a set of them
Matches(html) == {i \in 1..Len(html) : html[i].t = "range"}
Greatest(S) == CHOOSE x \in S : \A y \in S : x >= y

\* K is the set of the matches kept: a match is left out exactly when a match
\* was kept before it, the last such has its signature, and it begins fewer
\* than 40 characters after that one
KeptBy(html, K) ==
    \A m \in Matches(html) :
        LET P == {k \in K : k < m}
        IN  m \in K <=>
                ~( /\ P # {}
                   /\ keyOf(html, m) = keyOf(html, Greatest(P))
                   /\ posOf(html, m) - posOf(html, Greatest(P)) < NearDupChars )

\* C27: on a page where no list item holds a time pair, the blocks returned
\* are the matches of the extended scan in the order of the page, without
\* those whose (start, end, state) signature equals that of the last kept
\* match and which begin fewer than 40 characters after it; every other
\* match, the first of a run among them, is kept.
C27_NearDuplicatesDropped ==
    (ret.fn = "extract" /\ PairFrags(call.html) = {}) =>
        \E K \in SUBSET Matches(call.html) :
            /\ KeptBy(call.html, K)
            /\ Len(ret.val.blocks) = Cardinality(K)
            /\ \A m \in K :
                  LET n == Cardinality({x \in K : x <= m})
                  IN  /\ ret.val.blocks[n].start = call.html[m].start
                      /\ ret.val.blocks[n].end = call.html[m].end
                      /\ ret.val.blocks[n].on = keyOf(call.html, m)[3]

\* three matches of one signature 39 characters apart: the second is dropped,
\* the third, 78 characters after the first, is kept
C27_Witness ==
    /\ ret.fn = "extract"
    /\ call.html = << RangeA, Piece("pad", 28), RangeA, Piece("pad", 28), RangeA >>
    /\ Len(ret.val.blocks) = 2


(***************************************************************************)
(* The event instant and the clock snapshot                                *)
(***************************************************************************)

\* C28: when computeStatus yields a next change, the event instant projected
\* from it is strictly later than the nowUtcMs of the clock snapshot; and
\* when the decision is to send, the time from the snapshot to the event is
\* at most minutesBefore minutes and more than minutesBefore - windowMinutes
\* minutes, and the snapshot is before the event.
C28_EventAfterSnapshot ==
    ret.fn = "alert" =>
        LET v == ret.val
            left == v.ev - v.now.nowUtcMs
        IN  /\ v.nextChangeMin # NullMin => left > 0
            /\ v.why = "send" =>
                  /\ v.nextChangeMin # NullMin
                  /\ left <= v.minsBefore * MsPerMin
                  /\ left > (v.minsBefore - AlertWindowMin) * MsPerMin
                  /\ left > 0

\* an alert decided with minutesBefore below the window, 59.999 seconds into
\* the last minute before the event: one millisecond is left
C28_Witness ==
    /\ ret.fn = "alert"
    /\ ret.val.why = "send"
    /\ ret.val.minsBefore = 5
    /\ ret.val.ev - ret.val.now.nowUtcMs = 1

(***************************************************************************)
(* The record read before the subscriber turned the alerts off             *)
(***************************************************************************)

\* C29: once the request that turned a subscriber's alerts off has removed
\* the subscriber's keys, no step taken while the alerts stay off puts a key
\* of that subscriber into the store: an invocation that read the record
\* before the delete does not write it back.
C29_NoWriteBackAfterDelete ==
    [][\A c \in Chats :
          ( /\ ~st[c].alerts
            /\ ~st'[c].alerts
            /\ \A k \in DOMAIN kv : k[1] # c )
          => \A k \in DOMAIN kv' : k[1] # c]_vars

(***************************************************************************)
(* A block that crosses local midnight                                     *)
(***************************************************************************)

\* a page of one block whose end text is earlier than its start text
CrossesMidnight(items) ==
    Len(items) = 1 /\ toMin(items[1].end) < toMin(items[1].start)

\* the instant of the call is on the local day after Day0
AfterMidnight == call.localMin >= MinPerDay

\* C30: for a block that crosses local midnight, (1) while it is current
\* before midnight the event is its end's time of day on the following local
\* day; (2) after midnight, when the alert instant of that end is on the new
\* day and the snapshot is inside the firing window of that end, the event is
\* still that end, on the day of the snapshot, and the alert is sent.
C30_MidnightBlockAlert ==
    (ret.fn = "alert" /\ CrossesMidnight(call.items)) =>
        LET v == ret.val
            b == v.blocks[1]
            endOfDay == toMin(b.end)
            day == localDayStartMs(v.now.localMs)
            endUtc == day + endOfDay * MsPerMin - v.now.offMin * MsPerMin
            open == endUtc - v.minsBefore * MsPerMin
        IN  /\ (~AfterMidnight /\ v.now.minutes >= b.startMin) =>
                  v.ev = endUtc + DayMs
            /\ ( /\ AfterMidnight
                 /\ endOfDay >= v.minsBefore
                 /\ v.now.nowUtcMs >= open
                 /\ v.now.nowUtcMs < open + AlertWindowMin * MsPerMin ) =>
                  (v.ev = endUtc /\ v.why = "send")

(***************************************************************************)
(* More records than the cap: the cron schedule with two subscriptions     *)
(***************************************************************************)

\* the chat has selected u1 and then u2 with alerts enabled; the store and
\* the notify sink do not fail; scheduled() runs every CronPeriodMin minutes
InitCapped ==
    /\ now \in {(StartMs + 1) - PeriodMs + p * MsPerMin : p \in 1..CronPeriodMin}
    /\ kv = upsertSubscription(upsertSubscription(<< >>, "c1", "u1", TRUE),
                               "c1", "u2", TRUE)
    /\ st = [c \in Chats |-> [defaultUserState EXCEPT !.selected = "u2"]]
    /\ cap \in 1..MaxCap
    /\ pc = [i \in Inv |-> "idle"]
    /\ ckeys = [i \in Inv |-> << >>]
    /\ cnow = [i \in Inv |-> NoNow]
    /\ crec = [i \in Inv |-> NoRec]
    /\ cev = [i \in Inv |-> 0]
    /\ processed = [i \in Inv |-> 0]
    /\ sent = [i \in Inv |-> 0]
    /\ why = [i \in Inv |-> "none"]
    /\ cres = [i \in Inv |-> FALSE]
    /\ outcome = [i \in Inv |-> "none"]
    /\ alerts = EmptyBag
    /\ call = NoCall
    /\ ret = NoCall
    /\ InitAds

NextCapped ==
    \/ TickPeriod
    \/ CronList(1, TRUE)
    \/ CronGet(1, TRUE)
    \/ \E p \in Pages : CronProcess(1, [kind |-> "ok", items |-> p])
    \/ CronSend(1, TRUE)
    \/ CronPut(1, TRUE)

\* every trigger of the schedule fires and every invocation runs to its end
SpecCapped == InitCapped /\ [][NextCapped]_vars /\ WF_vars(NextCapped)

C32_OneSnapshotPerInvocation ==
    /\ [](\A i \in Inv :
            /\ pc[i] # "idle" => cnow[i].nowUtcMs <= now
            /\ cev[i] # 0 =>
                  LET d == (cev[i] + cnow[i].offMin * MsPerMin)
                           - localDayStartMs(cnow[i].localMs)
                  IN  d % MsPerMin = 0 /\ d \div MsPerMin > cnow[i].minutes
            /\ pc[i] = "send" => InFiringWindow(i, cev[i]))
    /\ [][\A i \in Inv : pc[i] # "idle" => cnow'[i] = cnow[i]]_vars

\* the second key of an invocation is at the send although the clock has
\* left the firing window of its event since the snapshot was taken
C32_Witness ==
    \E i \in Inv :
        /\ pc[i] = "send"
        /\ processed[i] = 2
        /\ now >= (cev[i] - minsBefore(crec[i]) * MsPerMin) + AlertWindowMin * MsPerMin


(***************************************************************************)
(* The subscriber's requests handled one at a time, and the listing of the *)
(* dispatcher                                                              *)
(***************************************************************************)

UserRequest ==
    \E c \in Chats :
        \/ \E u \in Urls, ok \in BOOLEAN : SelectQueue(c, u, ok)
        \/ SaveQueue(c)
        \/ \E idx \in 1..Cardinality(Urls), ok \in BOOLEAN : ShowSaved(c, idx, ok)
        \/ \E idx \in 1..Cardinality(Urls) : DelSaved(c, idx)
        \/ \E ok \in BOOLEAN : ToggleAlerts(c, ok)

\* the requests, and invocations of runCronAlerts that find no alert due
NextUser ==
    \/ UserRequest
    \/ CronList(1, TRUE)
    \/ CronGet(1, TRUE)
    \/ \E p \in Pages : CronProcess(1, [kind |-> "ok", items |-> p])

SpecUser == Init /\ [][NextUser]_vars

\* the keys of the store that belong to chat c
KeysOf(store, c) == {k \in DOMAIN store : k[1] = c}

Without(s, idx) == [j \in 1..(Len(s) - 1) |-> IF j < idx THEN s[j] ELSE s[j + 1]]

\* C38: the saved list of a chat never holds the same URL twice; and a step
\* that shortens it removes one entry, the one at an index of the list, and
\* leaves the other entries, their order, the rest of the user state and the
\* store as they were.
C38_SavedListDistinct ==
    /\ [](\A c \in Chats :
            \A j, k \in 1..Len(st[c].saved) :
                j # k => st[c].saved[j] # st[c].saved[k])
    /\ [][\A c \in Chats :
            Len(st'[c].saved) < Len(st[c].saved) =>
                /\ \E idx \in 1..Len(st[c].saved) :
                      st'[c].saved = Without(st[c].saved, idx)
                /\ st'[c].selected = st[c].selected
                /\ st'[c].alerts = st[c].alerts
                /\ kv' = kv]_vars

\* both queues saved, u2 before u1, and u1 shown or selected last
C38_Witness ==
    /\ st["c1"].saved = << "u2", "u1" >>
    /\ st["c1"].selected = "u1"


(***************************************************************************)
(* Webhook requests of one chat in progress at once: each loads the user   *)
(* state, handles its update on the copy, and saves the copy               *)
(***************************************************************************)

Reqs == {1, 2}
NoReq == [stage |-> "idle", op |-> [kind |-> "none", u |-> "none"],
          copy |-> defaultUserState]
Updates ==
    {[kind |-> "save", u |-> "none"]} \cup {[kind |-> "queue", u |-> u] : u \in Urls}

\* what the handler of the update op makes of the user state s it loaded
handleCallback_st(s, op) ==
    IF op.kind = "queue" THEN [s EXCEPT !.selected = op.u]
    ELSE IF op.kind = "save"
              /\ s.selected # "none"
              /\ ~\E j \in 1..Len(s.saved) : s.saved[j] = s.selected
         THEN [s EXCEPT !.saved = Append(@, s.selected)]
         ELSE s

\* st = await loadUserState(env, key) of request r, for the update op
WebhookLoad(r, c, op) ==
    /\ call[r].stage = "idle"
    /\ call' = [call EXCEPT ![r] = [stage |-> "loaded", op |-> op, copy |-> st[c]]]
    /\ UNCHANGED << now, kv, st, cap, pc, ckeys, cnow, crec, cev, processed, sent,
                    why, cres, outcome, alerts, ret, avars >>

\* the handler of request r up to its await saveUserState(env, key, st)
WebhookSave(r, c) ==
    /\ call[r].stage = "loaded"
    /\ st' = [st EXCEPT ![c] = handleCallback_st(call[r].copy, call[r].op)]
    /\ kv' = IF call[r].op.kind = "queue" /\ call[r].copy.alerts
             THEN upsertSubscription(kv, c, call[r].op.u, TRUE) ELSE kv
    /\ call' = [call EXCEPT ![r] = NoReq]
    /\ UNCHANGED << now, cap, pc, ckeys, cnow, crec, cev, processed, sent,
                    why, cres, outcome, alerts, ret, avars >>

InitWebhooks ==
    /\ now = StartMs
    /\ kv = << >>
    /\ st = [c \in Chats |-> defaultUserState]
    /\ cap = MaxCap
    /\ pc = [i \in Inv |-> "idle"]
    /\ ckeys = [i \in Inv |-> << >>]
    /\ cnow = [i \in Inv |-> NoNow]
    /\ crec = [i \in Inv |-> NoRec]
    /\ cev = [i \in Inv |-> 0]
    /\ processed = [i \in Inv |-> 0]
    /\ sent = [i \in Inv |-> 0]
    /\ why = [i \in Inv |-> "none"]
    /\ cres = [i \in Inv |-> FALSE]
    /\ outcome = [i \in Inv |-> "none"]
    /\ alerts = EmptyBag
    /\ call = [r \in Reqs |-> NoReq]
    /\ ret = NoCall
    /\ InitAds

NextWebhooks ==
    \E r \in Reqs, c \in Chats :
        \/ \E op \in Updates : WebhookLoad(r, c, op)
        \/ WebhookSave(r, c)

SpecWebhooks == InitWebhooks /\ [][NextWebhooks]_vars

\* C34: the save of a request does not undo what other requests of the chat
\* stored since it loaded: a queue in the stored saved list is still in it
\* after the save (no update here deletes), and the stored selection changes
\* only by the save of a request that selects a queue.
C34_NoLostUpdate ==
    [][\A r \in Reqs, c \in Chats :
          (call[r].stage = "loaded" /\ call'[r].stage = "idle") =>
              /\ \A j \in 1..Len(st[c].saved) :
                    \E k \in 1..Len(st'[c].saved) : st'[c].saved[k] = st[c].saved[j]
              /\ call[r].op.kind # "queue" => st'[c].selected = st[c].selected]_vars

-----------------------------------------------------------------------------
(* The admin panel: updates of the admin and of other chats against the    *)
(* stored global config (handleMessage, handleCallback, handleAdminAction) *)

\* a message text is a sequence of characters
DigitSeq == << "0", "1", "2", "3", "4", "5", "6", "7", "8", "9" >>
Digits == {DigitSeq[i] : i \in 1..Len(DigitSeq)}
DigitVal(ch) == (CHOOSE i \in 1..Len(DigitSeq) : DigitSeq[i] = ch) - 1

\* Number(txt) of a text of digits only
RECURSIVE NumVal(_)
NumVal(t) ==
    IF t = << >> THEN 0
    ELSE NumVal(SubSeq(t, 1, Len(t) - 1)) * Len(DigitSeq) + DigitVal(t[Len(t)])

SecPerDay == 86400
SecPerHour == 3600
SecPerMin == 60
\* parseDurationToSec returned null
NoSec == -1

\* the first letter of every unit the pattern accepts; the alternation takes
\* the one-letter unit first
UnitLetters == {"d", "h", "m", "s"}

\* the index after the run of characters of the set chars that starts at p
RECURSIVE runEnd(_, _, _)
runEnd(t, p, chars) ==
    IF p <= Len(t) /\ t[p] \in chars THEN runEnd(t, p + 1, chars) ELSE p

\* the while loop over re.exec from position p: whether a token matched and
\* the total of the tokens (texts without a decimal point)
RECURSIVE scanTokens(_, _)
scanTokens(t, p) ==
    IF p > Len(t) THEN [matched |-> FALSE, total |-> 0]
    ELSE IF t[p] \notin Digits THEN scanTokens(t, p + 1)
    ELSE LET e == runEnd(t, p, Digits)
             q == runEnd(t, e, {" "})
         IN  IF q <= Len(t) /\ t[q] \in UnitLetters
             THEN LET v == NumVal(SubSeq(t, p, e - 1))
                      rest == scanTokens(t, q + 1)
                      add == IF t[q] = "d" THEN v * SecPerDay
                             ELSE IF t[q] = "h" THEN v * SecPerHour
                             ELSE IF t[q] = "m" THEN v * SecPerMin
                             ELSE v
                  IN  [matched |-> TRUE, total |-> add + rest.total]
             ELSE scanTokens(t, p + 1)

parseDurationToSec(t) ==
    IF t = << >> THEN NoSec
    ELSE IF runEnd(t, 1, Digits) > Len(t) THEN NumVal(t)
    ELSE LET r == scanTokens(t, 1)
         IN  IF ~r.matched THEN NoSec
             ELSE IF r.total > 0 THEN r.total ELSE 0

\* text.replace(/[^\d-]/g, "").trim()
wlIdOf(t) == SelectSeq(t, LAMBDA ch : ch \in Digits \cup {"-"})

\* the part of t before the first character ch
upTo(t, ch) ==
    IF \E i \in 1..Len(t) : t[i] = ch
    THEN SubSeq(t, 1, (CHOOSE i \in 1..Len(t) :
                          t[i] = ch /\ \A j \in 1..(i - 1) : t[j] # ch) - 1)
    ELSE t

\* extractCommand: null (here the empty text) unless the text starts with "/"
extractCommand(t) ==
    IF t = << >> \/ t[1] # "/" THEN << >> ELSE upTo(upTo(t, " "), "@")

CancelCmd == << "/", "c", "a", "n", "c", "e", "l" >>
CancelWord == << "c", "a", "n", "c", "e", "l" >>
AdminCmd == << "/", "a", "d", "m", "i", "n" >>

\* what STATE_KV holds under cfg:<token>: nothing yet, a value that does not
\* parse to an object, or a config
NoCfg == [raw |-> "none"]
BadCfg == [raw |-> "bad"]

\* bounds: ad items in the list, and the boundary of the frequencies the
\* admin steps through from below (MaxFreq) and from above (FreqMax)
MaxItems == 2
AdIds == {"a1"}

\* mutant of loadGlobalConfig: the stored values are used as they are
loadGlobalConfig_NoFills(raw) ==
    IF raw \in {NoCfg, BadCfg}
    THEN [cfg |-> defaultGlobalConfig, stored |-> defaultGlobalConfig]
    ELSE [cfg |-> raw, stored |-> raw]

\* loadGlobalConfig: the config the handler works with and what KV holds after
loadGlobalConfig(raw) ==
    IF raw \in {NoCfg, BadCfg}
    THEN [cfg |-> defaultGlobalConfig, stored |-> defaultGlobalConfig]
    ELSE [cfg |-> [raw EXCEPT
                     !.frequency = IF @ > FreqMax THEN FreqMax
                                   ELSE IF @ < 1 THEN 1 ELSE @,
                     !.cooldownSec = IF @ > 0 THEN @ ELSE 0,
                     !.items = IF @ = << >> THEN << "default" >> ELSE @],
          stored |-> raw]

\* what a handler returns to the model: the stored config and the admin mode
\* of the chat after it, the config object it worked with, the text it sent
Handled(stored, mode, used, reply) ==
    [stored |-> stored, mode |-> mode, used |-> used, reply |-> reply]

\* saveGlobalConfig(cfg) followed by a reply, the mode set to m
Saved(c, m, reply) == Handled(c, m, c, reply)

\* handleAdminAction for the callback data admin|act|arg
handleAdminAction(stored, mode, c, act, arg) ==
    IF act = "toggle_ad" THEN Saved([c EXCEPT !.enabled = ~@], mode, "menu")
    ELSE IF act = "freq_up"
    THEN Saved([c EXCEPT !.frequency = IF @ - 1 > 1 THEN @ - 1 ELSE 1], mode, "menu")
    ELSE IF act = "freq_down"
    THEN Saved([c EXCEPT !.frequency = IF @ + 1 < FreqMax THEN @ + 1 ELSE FreqMax],
               mode, "menu")
    ELSE IF act = "ad_timer" THEN Handled(stored, "await_ad_timer", c, "prompt")
    ELSE IF act = "add_ad_text" THEN Handled(stored, "await_ad_text", c, "prompt")
    ELSE IF act = "add_ad_media" THEN Handled(stored, "await_ad_media", c, "prompt")
    ELSE IF act = "ad_del"
    THEN IF arg = "" THEN Handled(stored, mode, c, "deleted")
         ELSE LET left == SelectSeq(c.items, LAMBDA a : a # arg)
              IN  Saved([c EXCEPT !.items = IF left = << >> THEN << "default" >>
                                            ELSE left],
                        mode, "deleted")
    ELSE IF act = "wl_add" THEN Handled(stored, "await_wl_add", c, "prompt")
    ELSE IF act = "wl_del" THEN Handled(stored, "await_wl_del", c, "prompt")
    ELSE Handled(stored, mode, c, "none")

\* handleCallback of the chat chatId whose state has the admin mode `mode`,
\* with raw under the config key
handleCallback_cfg(chatId, mode, raw, upd) ==
    LET l == loadGlobalConfig(raw)
    IN  IF upd.act = "noop" THEN Handled(l.stored, mode, l.cfg, "none")
        ELSE IF upd.act = "admin"
        THEN IF ~isAdmin(chatId) THEN Handled(l.stored, mode, l.cfg, "none")
             ELSE Handled(l.stored, mode, l.cfg, "menu")
        ELSE IF ~isAdmin(chatId) THEN Handled(l.stored, mode, l.cfg, "none")
        ELSE handleAdminAction(l.stored, mode, l.cfg, upd.act, upd.arg)

\* handleMessage up to the admin branches and the commands
handleMessage_cfg(chatId, mode, raw, upd) ==
    LET l == loadGlobalConfig(raw)
        c == l.cfg
        text == upd.text
        cmd == extractCommand(text)
        hasAnyMedia == upd.media # "none"
        withItem == [c EXCEPT !.items = << upd.id >> \o @]
    IN  IF isAdmin(chatId) /\ (cmd = CancelCmd \/ text = CancelWord)
        THEN Handled(l.stored, "none", c, "cancelled")
        ELSE IF isAdmin(chatId) /\ mode = "await_ad_text" /\ text # << >> /\ cmd = << >>
        THEN Saved(withItem, "none", "ad_added")
        ELSE IF isAdmin(chatId) /\ mode = "await_ad_timer" /\ text # << >>
        THEN LET sec == parseDurationToSec(text)
             IN  IF sec = NoSec THEN Handled(l.stored, mode, c, "bad_format")
                 ELSE Saved([c EXCEPT !.cooldownSec = IF sec > 0 THEN sec ELSE 0],
                            "none", "timer_set")
        ELSE IF isAdmin(chatId) /\ mode = "await_ad_media" /\ hasAnyMedia
        THEN IF upd.media = "empty" THEN Handled(l.stored, mode, c, "cannot_add")
             ELSE Saved(withItem, "none", "ad_added")
        ELSE IF isAdmin(chatId) /\ mode \in {"await_wl_add", "await_wl_del"}
                /\ text # << >>
        THEN LET id == wlIdOf(text)
             IN  IF id = << >> THEN Handled(l.stored, mode, c, "digits_only")
                 ELSE LET wl == IF mode = "await_wl_add" THEN c.whitelist \cup {id}
                                ELSE c.whitelist \ {id}
                          after == "none"
                      IN  Saved([c EXCEPT !.whitelist = wl], after,
                                IF after = "await_wl_add" THEN "added"
                                ELSE "removed")
        ELSE IF isAdmin(chatId) /\ hasAnyMedia /\ upd.adcap
        THEN IF upd.media = "empty" THEN Handled(l.stored, mode, c, "cannot_add")
             ELSE Saved(withItem, mode, "ad_added")
        ELSE IF cmd = AdminCmd /\ isAdmin(chatId)
        THEN Handled(l.stored, mode, c, "menu")
        ELSE Handled(l.stored, mode, c, "other")

\* configs an earlier deployment left under the key, which the fills of
\* loadGlobalConfig are for
LegacyConfigs ==
    {[defaultGlobalConfig EXCEPT !.frequency = 0, !.cooldownSec = -1,
                                 !.items = << >>],
     [defaultGlobalConfig EXCEPT !.frequency = FreqMax + 1]}

\* the texts of the messages considered
AdminTexts ==
    {<< "7" >>, << "7", "m" >>, << "a", "b" >>, << "a", "-" >>, CancelCmd,
     AdminCmd}

AdminActs ==
    {"noop", "admin", "toggle_ad", "freq_up", "freq_down", "ad_timer",
     "add_ad_text", "add_ad_media", "ad_del", "wl_add", "wl_del"}

\* the updates considered: text messages, media messages (a photo, or a
\* photo array without sizes) with or without an /ad caption, callbacks
AdminUpdates ==
    {[kind |-> "message", text |-> t, media |-> "none", adcap |-> FALSE,
      act |-> "none", arg |-> "", id |-> i] : t \in AdminTexts, i \in AdIds}
    \cup {[kind |-> "message", text |-> << >>, media |-> "photo", adcap |-> b,
           act |-> "none", arg |-> "", id |-> i] : b \in BOOLEAN, i \in AdIds}
    \cup {[kind |-> "message", text |-> << >>, media |-> "empty", adcap |-> TRUE,
           act |-> "none", arg |-> "", id |-> i] : i \in AdIds}
    \cup {[kind |-> "callback", text |-> << >>, media |-> "none", adcap |-> FALSE,
           act |-> a, arg |-> "", id |-> "none"] : a \in AdminActs}
    \cup {[kind |-> "callback", text |-> << >>, media |-> "none", adcap |-> FALSE,
           act |-> "ad_del", arg |-> g, id |-> "none"] :
             g \in AdIds \cup {"default"}}

\* the bounds on what the admin saves
WithinAdminBounds(c) ==
    /\ IF c.frequency <= MaxFreq THEN TRUE ELSE c.frequency = FreqMax
    /\ Len(c.items) <= MaxItems

\* one update of the chat chatId, handled from loadUserState to saveUserState
HandleUpdate(chatId, upd) ==
    LET h == IF upd.kind = "callback"
             THEN handleCallback_cfg(chatId, st[chatId].mode, cfg, upd)
             ELSE handleMessage_cfg(chatId, st[chatId].mode, cfg, upd)
    IN  /\ IF h.stored \in {cfg, defaultGlobalConfig} THEN TRUE
           ELSE WithinAdminBounds(h.stored)
        /\ cfg' = h.stored
        /\ st' = [st EXCEPT ![chatId].mode = h.mode]
        /\ ret' = [fn |-> "update", chatId |-> chatId, upd |-> upd,
                   used |-> h.used, reply |-> h.reply]
        /\ UNCHANGED << now, kv, cap, pc, ckeys, cnow, crec, cev, processed, sent,
                        why, cres, outcome, alerts, call, ad, adlog >>

InitAdmin ==
    /\ now = StartMs
    /\ kv = << >>
    /\ st = [c \in AdChats |-> defaultUserState]
    /\ cap = MaxCap
    /\ pc = [i \in Inv |-> "idle"]
    /\ ckeys = [i \in Inv |-> << >>]
    /\ cnow = [i \in Inv |-> NoNow]
    /\ crec = [i \in Inv |-> NoRec]
    /\ cev = [i \in Inv |-> 0]
    /\ processed = [i \in Inv |-> 0]
    /\ sent = [i \in Inv |-> 0]
    /\ why = [i \in Inv |-> "none"]
    /\ cres = [i \in Inv |-> FALSE]
    /\ outcome = [i \in Inv |-> "none"]
    /\ alerts = EmptyBag
    /\ call = NoCall
    /\ ret = NoCall
    /\ cfg \in {NoCfg, BadCfg} \cup LegacyConfigs
    /\ ad = [c \in AdChats |-> defaultAd]
    /\ adlog = [c \in AdChats |-> [calls |-> 0, n |-> 0, lastMs |-> 0, lastCd |-> 0,
                                  blocked |-> 0, lastBlocked |-> 0]]

NextAdmin == \E chatId \in AdChats, upd \in AdminUpdates : HandleUpdate(chatId, upd)

SpecAdmin == InitAdmin /\ [][NextAdmin]_vars

\* C35: an update of a chat other than the admin's leaves the stored global
\* config (enabled flag, frequency, cooldown, items, whitelist) as it was,
\* whatever it is (an admin callback, a text, a command, media with an /ad
\* caption), and leaves the chat without an admin mode; the one exception is
\* that a load which finds no config (or no parsable one) stores the default.
C35_NonAdminCannotChangeConfig ==
    /\ [](\A c \in AdChats \ {AdminId} : st[c].mode = "none")
    /\ [][(ret'.fn = "update" /\ ret'.chatId # AdminId) =>
             \/ cfg' = cfg
             \/ cfg \in {NoCfg, BadCfg} /\ cfg' = defaultGlobalConfig]_vars

\* the admin has switched ads off and whitelisted a chat; after that the
\* other chat has pressed the admin's toggle button
C35_Witness ==
    /\ ret.fn = "update" /\ ret.chatId = "c1"
    /\ ret.upd.kind = "callback" /\ ret.upd.act = "toggle_ad"
    /\ ret.reply = "none"
    /\ cfg \notin {NoCfg, BadCfg}
    /\ ~cfg.enabled /\ cfg.whitelist = {<< "7" >>}

\* 1 <= frequency <= 20, cooldownSec >= 0, items not empty
ConfigInRange(c) ==
    /\ c.frequency >= 1 /\ c.frequency <= FreqMax
    /\ c.cooldownSec >= 0
    /\ c.items # << >>

\* C36: the config object every handler works with is in range (frequency in
\* 1..20, cooldownSec >= 0, at least one item), so is every config a handler
\* stores, and deleting the only item(s) of the list stores the list of the
\* default item.
C36_ConfigInRange ==
    /\ [](ret.fn = "update" => ConfigInRange(ret.used))
    /\ [][cfg' # cfg => ConfigInRange(cfg')]_vars
    /\ [][( /\ ret'.fn = "update" /\ ret'.chatId = AdminId
            /\ ret'.upd.act = "ad_del" /\ ret'.upd.arg # ""
            /\ cfg \notin {NoCfg, BadCfg}
            /\ \A j \in 1..Len(cfg.items) : cfg.items[j] = ret'.upd.arg ) =>
              cfg'.items = << "default" >>]_vars

\* the admin has saved a legacy config (frequency stored above 20), set the
\* timer with the text 7m and deleted the only ad item
C36_Witness ==
    /\ ret.fn = "update" /\ ret.chatId = AdminId
    /\ ret.upd.act = "ad_del" /\ ret.upd.arg = "a1"
    /\ cfg \notin {NoCfg, BadCfg}
    /\ cfg.items = << "default" >>
    /\ cfg.frequency = FreqMax
    /\ cfg.cooldownSec = 7 * SecPerMin

\* the digits of a text
digitsOf(t) == SelectSeq(t, LAMBDA ch : ch \in Digits)

\* C37: a text of the admin in mode await_wl_add that contains a numeric id
\* puts that id on the whitelist, clears the mode and is answered with the
\* confirmation of an addition; in mode await_wl_del the id is taken off and
\* the answer confirms a removal; a text without digits leaves the whitelist
\* and the mode as they were.
C37_WhitelistModes ==
    [][( /\ ret'.fn = "update" /\ ret'.chatId = AdminId
         /\ ret'.upd.kind = "message" /\ ret'.upd.text # << >>
         /\ extractCommand(ret'.upd.text) = << >>
         /\ st[AdminId].mode \in {"await_wl_add", "await_wl_del"} ) =>
           LET id == digitsOf(ret'.upd.text)
               before == loadGlobalConfig(cfg).cfg.whitelist
           IN  IF id # << >>
               THEN /\ st'[AdminId].mode = "none"
                    /\ IF st[AdminId].mode = "await_wl_add"
                       THEN id \in cfg'.whitelist /\ ret'.reply = "added"
                       ELSE id \notin cfg'.whitelist /\ ret'.reply = "removed"
               ELSE /\ cfg'.whitelist = before
                    /\ st'[AdminId].mode = st[AdminId].mode]_vars

-----------------------------------------------------------------------------
(* The legacy variant on KV_USERS: runAlerts (src/unnamed/part_000).  Here  *)
(* st holds the user records of KV_USERS and alerts the notifications with *)
(* the local minute at which they were sent.                               *)

\* bounds: minutes between two cron runs, number of clock advances
LegacyStepMin == 10
LegacyTicks == 8

LegacyOffsetMin == 120
LegacyAlertMin == 20

\* a label "HH:MM" is the pair of its numbers; null is the empty tuple
NoLabel == << >>

\* normalize(start, end)
normalize(start, end) ==
    LET s == toMin(start)
        e == toMin(end)
    IN  [start |-> start, end |-> end, startMin |-> s,
         endMin |-> IF e < s THEN e + MinPerDay ELSE e]

\* getBlocks: the intervals on the page of the queue url
getBlocks(url) ==
    IF url = "u1" THEN << normalize(<< 10, 0 >>, << 10, 40 >>) >>
    ELSE << normalize(<< 10, 0 >>, << 10, 20 >>),
            normalize(<< 10, 40 >>, << 0, 30 >>) >>

\* nowMinutesUA at the clock t (UTC milliseconds)
nowMinutesUA(t) ==
    (((t \div MsPerMin) % MinPerDay) + LegacyOffsetMin) % MinPerDay

\* Math.abs
Abs(x) == IF x < 0 THEN 0 - x ELSE x

\* registerUser: the record of a new user
newUser(chatId) ==
    [chatId |-> chatId, alerts |-> FALSE, queueUrl |-> "none",
     lastOn |-> NoLabel, lastOff |-> NoLabel]

\* the body of `for (const b of blocks)` from block j on: the user record
\* after it and the notifications sent, in order
RECURSIVE alertLoop(_, _, _, _)
alertLoop(u, blocks, j, nowMin) ==
    IF j > Len(blocks) THEN [u |-> u, msgs |-> << >>]
    ELSE LET b == blocks[j]
             on == Abs(b.startMin - nowMin) = LegacyAlertMin /\ u.lastOn # b.start
             u1 == IF on THEN [u EXCEPT !.lastOn = b.start] ELSE u
             off == Abs(b.endMin - nowMin) = LegacyAlertMin /\ u1.lastOff # b.end
             u2 == IF off THEN [u1 EXCEPT !.lastOff = b.end] ELSE u1
             rest == alertLoop(u2, blocks, j + 1, nowMin)
             m1 == IF on THEN << [chatId |-> u.chatId, kind |-> "on",
                                  label |-> b.start, at |-> nowMin] >>
                   ELSE << >>
             m2 == IF off THEN << [chatId |-> u.chatId, kind |-> "off",
                                   label |-> b.end, at |-> nowMin] >>
                   ELSE << >>
         IN  [u |-> rest.u, msgs |-> m1 \o m2 \o rest.msgs]

\* the bag of the elements of a sequence
RECURSIVE BagOfSeq(_)
BagOfSeq(s) ==
    IF s = << >> THEN EmptyBag ELSE SetToBag({Head(s)}) (+) BagOfSeq(Tail(s))

lvars == << kv, cap, pc, ckeys, cnow, crec, cev, processed, sent, why, cres,
            outcome, call, cfg, ad, adlog >>

\* one run of runAlerts (one cron run per clock value)
RunAlerts ==
    /\ IF ret.fn = "runAlerts" THEN ret.at # now ELSE TRUE
    /\ LET nowMin == nowMinutesUA(now)
           run(c) == IF ~st[c].alerts \/ st[c].queueUrl = "none"
                     THEN [u |-> st[c], msgs |-> << >>]
                     ELSE alertLoop(st[c], getBlocks(st[c].queueUrl), 1, nowMin)
           c1 == CHOOSE c \in Chats : TRUE
       IN  /\ st' = [c \in Chats |-> run(c).u]
           /\ alerts' = alerts (+) BagOfSeq(run(c1).msgs)
           /\ ret' = [fn |-> "runAlerts", at |-> now, before |-> st[c1],
                      msgs |-> run(c1).msgs]
    /\ UNCHANGED << now, lvars >>

\* the callback of a queue button: saveUserQueue
SaveUserQueue(c, url) ==
    /\ st' = [st EXCEPT ![c].queueUrl = url]
    /\ UNCHANGED << now, alerts, ret, lvars >>

\* the callback alerts_on: enableAlerts
EnableAlerts(c) ==
    /\ st' = [st EXCEPT ![c].alerts = TRUE]
    /\ UNCHANGED << now, alerts, ret, lvars >>

TickLegacy ==
    /\ now < Day0 * DayMs + (StartMinUtc + LegacyTicks * LegacyStepMin) * MsPerMin
    /\ now' = now + LegacyStepMin * MsPerMin
    /\ UNCHANGED << st, alerts, ret, lvars >>

InitLegacy ==
    /\ now = Day0 * DayMs + StartMinUtc * MsPerMin
    /\ kv = << >>
    /\ st = [c \in Chats |-> newUser(c)]
    /\ cap = MaxCap
    /\ pc = [i \in Inv |-> "idle"]
    /\ ckeys = [i \in Inv |-> << >>]
    /\ cnow = [i \in Inv |-> NoNow]
    /\ crec = [i \in Inv |-> NoRec]
    /\ cev = [i \in Inv |-> 0]
    /\ processed = [i \in Inv |-> 0]
    /\ sent = [i \in Inv |-> 0]
    /\ why = [i \in Inv |-> "none"]
    /\ cres = [i \in Inv |-> FALSE]
    /\ outcome = [i \in Inv |-> "none"]
    /\ alerts = EmptyBag
    /\ call = NoCall
    /\ ret = NoCall
    /\ InitAds

NextLegacy ==
    \/ TickLegacy
    \/ RunAlerts
    \/ \E c \in Chats, url \in Urls : SaveUserQueue(c, url)
    \/ \E c \in Chats : EnableAlerts(c)

SpecLegacy == InitLegacy /\ [][NextLegacy]_vars

\* C39: every notification of runAlerts is about a boundary that lies exactly
\* 20 minutes after the local minute at which it was sent (never one that
\* has passed); a notification of power coming on carries the start label of
\* a block of the user's queue and one of power going off an end label; and
\* no notification has the label the user was notified of last for that kind.
C39_LegacyAlerts ==
    /\ [](\A m \in BagToSet(alerts) :
            (toMin(m.label) - m.at) % MinPerDay = LegacyAlertMin)
    /\ [](ret.fn = "runAlerts" =>
            \A j \in 1..Len(ret.msgs) :
                LET m == ret.msgs[j]
                    blocks == getBlocks(ret.before.queueUrl)
                    same == {i \in 1..(j - 1) : ret.msgs[i].kind = m.kind}
                    last == IF same = {}
                            THEN IF m.kind = "on" THEN ret.before.lastOn
                                 ELSE ret.before.lastOff
                            ELSE ret.msgs[CHOOSE i \in same :
                                             \A k \in same : k <= i].label
                IN  /\ \E i \in 1..Len(blocks) :
                          m.label = IF m.kind = "on" THEN blocks[i].start
                                    ELSE blocks[i].end
                    /\ m.label # last)

====
